---------------------------- MODULE Spec2Model ----------------------------
(***************************************************************************)
(* Model of the OpenAPI evaluator: the Judge (orchestrator), the seven     *)
(* rule evaluators, the reference resolver and the scoring helper.         *)
(*                                                                         *)
(* A parsed OpenAPI document is a JSON tree.  A node is a record           *)
(*   [t |-> kind, v |-> text, kids |-> members]                            *)
(* with kind one of "obj", "arr", "str", "bool", "null", "undefined";      *)
(* members is the sequence of [k |-> key, n |-> node] in insertion order   *)
(* (the order Object.keys / Object.entries return).  Strings are TLA+      *)
(* strings and are taken apart character by character, as the code does.   *)
(***************************************************************************)
EXTENDS Integers, Sequences, FiniteSets, TLC

VARIABLES
    spec,         \* the parsed document handed to Judge.evaluate
    pc,           \* position of Judge.evaluate: "rules", "done", "thrown"
    evaluated,    \* the rules whose evaluate has returned in this call, in call order
    ruleResults,  \* rule name -> RuleResult, for the rules in evaluated
    scoreCard,    \* the ScoreCard returned by this call (NoCard before it returns)
    history,      \* ScoreCards returned by earlier calls on the same document
    call,         \* a helper or rule called on its own: its name and arguments
    outcome       \* what that call returned (NoOutcome before it returns)

vars == <<spec, pc, evaluated, ruleResults, scoreCard, history, call, outcome>>

-----------------------------------------------------------------------------
(* JSON values *)

Undefined == [t |-> "undefined", v |-> "", kids |-> <<>>]
JNull == [t |-> "null", v |-> "", kids |-> <<>>]
Str(s) == [t |-> "str", v |-> s, kids |-> <<>>]
JTrue == [t |-> "bool", v |-> "true", kids |-> <<>>]
KV(key, node) == [k |-> key, n |-> node]
Obj(members) == [t |-> "obj", v |-> "", kids |-> members]
Arr(items) == [t |-> "arr", v |-> "", kids |-> [i \in 1..Len(items) |-> KV(ToString(i - 1), items[i])]]

\* JavaScript truthiness: !!x
Truthy(n) ==
    CASE n.t \in {"obj", "arr"} -> TRUE
      [] n.t = "str" -> n.v # ""
      [] n.t = "bool" -> n.v = "true"
      [] n.t = "num" -> n.v # "0"
      [] OTHER -> FALSE

IsObject(n) == n.t \in {"obj", "arr"}

\* null and undefined: a property read on them throws a TypeError
IsNullish(n) == n.t \in {"null", "undefined"}

\* key in x, for an object x
HasKey(n, key) == IsObject(n) /\ \E i \in 1..Len(n.kids) : n.kids[i].k = key

\* x[key]: undefined when the key is absent or x is a primitive
Get(n, key) ==
    IF HasKey(n, key)
    THEN n.kids[CHOOSE i \in 1..Len(n.kids) : n.kids[i].k = key].n
    ELSE Undefined

\* Object.keys(x).length, x.length of an array
Size(n) == Len(n.kids)

\* Object.entries(x)
Entries(n) == n.kids

\* Object.keys(x)
Keys(n) == [i \in 1..Len(n.kids) |-> n.kids[i].k]

-----------------------------------------------------------------------------
(* Sequences *)

RECURSIVE Flatten(_)
\* the concatenation of a sequence of sequences (Array.prototype.flat)
Flatten(ss) == IF Len(ss) = 0 THEN <<>> ELSE Head(ss) \o Flatten(Tail(ss))

RECURSIVE SumSeq(_)
\* the sum of a sequence of integers
SumSeq(s) == IF Len(s) = 0 THEN 0 ELSE Head(s) + SumSeq(Tail(s))

Range(s) == {s[i] : i \in 1..Len(s)}

Max(a, b) == IF a >= b THEN a ELSE b
Min(a, b) == IF a <= b THEN a ELSE b

\* Math.round(n / d) for d > 0: the nearest integer, halves towards +infinity
Round(n, d) == (2 * n + d) \div (2 * d)

-----------------------------------------------------------------------------
(* Numbers. A JavaScript number is an IEEE 754 double: 53 significant bits, and   *)
(* every operation gives the double nearest to the exact result, ties to the even *)
(* one. A double is sign, significand and exponent: (-1)^neg * m * 2^e, with m of *)
(* exactly 53 bits, or zero. Significands exceed the integers of the model        *)
(* checker, so they are sequences of 15-bit limbs, least significant first; <<>>  *)
(* is zero and the last limb is never zero. The scores computed stay far from     *)
(* overflow, underflow and NaN, which are left out.                               *)

LimbAt(N, i) == IF i <= Len(N) THEN N[i] ELSE 0

\* a sequence of limbs without its most significant zeros
Trimmed(N) ==
    IF \A i \in 1..Len(N) : N[i] = 0 THEN <<>>
    ELSE SubSeq(N, 1, CHOOSE i \in 1..Len(N) : N[i] # 0 /\ \A j \in (i + 1)..Len(N) : N[j] = 0)

\* the limbs of a natural number below 2^30
Limbs(n) == Trimmed(<<n % 32768, n \div 32768>>)

\* the natural number of at most two limbs
NatValue(N) == LimbAt(N, 1) + 32768 * LimbAt(N, 2)

RECURSIVE Carried(_, _)
\* the limbs of a sequence of numbers below 2^30 plus a carry
Carried(wide, carry) ==
    IF Len(wide) = 0 THEN Limbs(carry)
    ELSE <<(Head(wide) + carry) % 32768>>
         \o Carried(Tail(wide), (Head(wide) + carry) \div 32768)

AddNat(N, M) ==
    Trimmed(Carried([i \in 1..Max(Len(N), Len(M)) |-> LimbAt(N, i) + LimbAt(M, i)], 0))

RECURSIVE Borrowed(_, _, _)
\* N - M - borrow limb by limb, for N >= M + borrow
Borrowed(N, M, borrow) ==
    IF Len(N) = 0 THEN <<>>
    ELSE <<(Head(N) - LimbAt(M, 1) - borrow + 32768) % 32768>>
         \o Borrowed(Tail(N), IF Len(M) > 0 THEN Tail(M) ELSE <<>>,
                     IF Head(N) - LimbAt(M, 1) - borrow < 0 THEN 1 ELSE 0)

SubNat(N, M) == Trimmed(Borrowed(N, M, 0))

LessNat(N, M) ==
    IF Len(N) # Len(M) THEN Len(N) < Len(M)
    ELSE \E i \in 1..Len(N) : N[i] < M[i] /\ \A j \in (i + 1)..Len(N) : N[j] = M[j]

\* N * k for 0 <= k < 2^15
MulSmall(N, k) == Trimmed(Carried([i \in 1..Len(N) |-> N[i] * k], 0))

\* one step of the long division by d: the quotient and remainder of the more
\* significant limbs, then the next limb
DivStep(hi, limb, d) ==
    [q |-> <<(hi.r * 32768 + limb) \div d>> \o hi.q, r |-> (hi.r * 32768 + limb) % d]

RECURSIVE DivSmall(_, _)
\* quotient and remainder of N by d, 0 < d < 2^15, from the most significant limb down
DivSmall(N, d) ==
    IF Len(N) = 0 THEN [q |-> <<>>, r |-> 0]
    ELSE DivStep(DivSmall(Tail(N), d), Head(N), d)

\* N * 2^k
ShiftLeft(N, k) ==
    IF Len(N) = 0 THEN <<>>
    ELSE [i \in 1..(k \div 15) |-> 0] \o MulSmall(N, 2 ^ (k % 15))

\* N \div 2^k
ShiftRight(N, k) ==
    IF (k \div 15) >= Len(N) THEN <<>>
    ELSE Trimmed([i \in 1..(Len(N) - (k \div 15)) |->
                    (N[i + (k \div 15)] \div (2 ^ (k % 15)))
                    + (LimbAt(N, i + (k \div 15) + 1) % (2 ^ (k % 15))) * (2 ^ (15 - (k % 15)))])

\* bit i of N, bit 0 the least significant
Bit(N, i) == (LimbAt(N, (i \div 15) + 1) \div (2 ^ (i % 15))) % 2

\* some bit of N below bit k is set
AnyBitBelow(N, k) == \E i \in 0..(k - 1) : Bit(N, i) = 1

\* the number of bits of N
BitLen(N) ==
    IF Len(N) = 0 THEN 0
    ELSE 15 * (Len(N) - 1)
         + (CHOOSE k \in 1..15 : 2 ^ (k - 1) <= N[Len(N)] /\ N[Len(N)] < 2 ^ k)

Zero == [neg |-> FALSE, m |-> <<>>, e |-> 0]

\* a significand of 54 bits after rounding up is 2^53
Renormalized(neg, m, e) ==
    IF BitLen(m) > 53 THEN [neg |-> neg, m |-> ShiftRight(m, 1), e |-> e + 1]
    ELSE [neg |-> neg, m |-> m, e |-> e]

\* Rounded for an N of len bits, len > 0
RoundedAt(neg, N, e, inexact, len) ==
    IF len <= 53
    THEN [neg |-> neg, m |-> ShiftLeft(N, 53 - len), e |-> e - (53 - len)]
    ELSE IF /\ Bit(N, len - 54) = 1
            /\ \/ inexact
               \/ AnyBitBelow(N, len - 54)
               \/ Bit(N, len - 53) = 1
    THEN Renormalized(neg, AddNat(ShiftRight(N, len - 53), <<1>>), e + len - 53)
    ELSE [neg |-> neg, m |-> ShiftRight(N, len - 53), e |-> e + len - 53]

\* the double nearest to (-1)^neg * (N + f) * 2^e, where 0 < f < 1 if inexact and
\* f = 0 otherwise: round to nearest, ties to even
Rounded(neg, N, e, inexact) ==
    IF Len(N) = 0 THEN Zero ELSE RoundedAt(neg, N, e, inexact, BitLen(N))

\* the double of an integer of magnitude below 2^15
FromInt(n) == Rounded(n < 0, Limbs(IF n < 0 THEN -n ELSE n), 0, FALSE)

\* k * x for an integer k of magnitude below 2^15
MulInt(k, x) == Rounded((k < 0) # x.neg, MulSmall(x.m, IF k < 0 THEN -k ELSE k), x.e, FALSE)

\* the quotient of x / d for an integer 0 < d < 2^15 that Rounded rounds
Quotient(neg, qr, e) == Rounded(neg, Trimmed(qr.q), e, qr.r # 0)

\* x / d for an integer 0 < d < 2^15
DivInt(x, d) == Quotient(x.neg, DivSmall(ShiftLeft(x.m, 30), d), x.e - 30)

\* the sum of two doubles whose significands are aligned to the exponent e
AddAligned(xneg, X, yneg, Y, e) ==
    IF xneg = yneg THEN Rounded(xneg, AddNat(X, Y), e, FALSE)
    ELSE IF LessNat(X, Y) THEN Rounded(yneg, SubNat(Y, X), e, FALSE)
    ELSE Rounded(xneg, SubNat(X, Y), e, FALSE)

\* x + y
Add(x, y) ==
    IF Len(x.m) = 0 THEN y
    ELSE IF Len(y.m) = 0 THEN x
    ELSE AddAligned(x.neg, ShiftLeft(x.m, x.e - Min(x.e, y.e)),
                    y.neg, ShiftLeft(y.m, y.e - Min(x.e, y.e)), Min(x.e, y.e))

RECURSIVE MulNat(_, _)
\* N * M, limb by limb
MulNat(N, M) ==
    IF Len(M) = 0 THEN <<>>
    ELSE AddNat(MulSmall(N, Head(M)), <<0>> \o MulNat(N, Tail(M)))

\* x * y
Mul(x, y) == Rounded(x.neg # y.neg, MulNat(x.m, y.m), x.e + y.e, FALSE)

\* x - y
Sub(x, y) == Add(x, [y EXCEPT !.neg = ~y.neg])

\* x < y
LessThan(x, y) == Len(Sub(x, y).m) > 0 /\ Sub(x, y).neg

\* Math.round(x) of a double of magnitude below 2^29: the nearest integer, halves
\* towards +infinity
MathRound(x) ==
    IF Len(x.m) = 0 THEN 0
    ELSE IF x.e >= 0 THEN (IF x.neg THEN -1 ELSE 1) * NatValue(ShiftLeft(x.m, x.e))
    ELSE IF x.neg
    THEN -(NatValue(ShiftRight(x.m, -x.e))
           + (IF Bit(x.m, -x.e - 1) = 1 /\ AnyBitBelow(x.m, -x.e - 1) THEN 1 ELSE 0))
    ELSE NatValue(ShiftRight(x.m, -x.e)) + Bit(x.m, -x.e - 1)

\* the number a decimal literal n/10 is: the double nearest to it
Tenths(n) == DivInt(FromInt(n), 10)

\* Math.min(x, y)
MathMin(x, y) == IF LessThan(y, x) THEN y ELSE x

\* Math.round(n / d * k) as JavaScript computes it from integers n, d > 0 and k
RoundRatioTimes(n, d, k) == MathRound(MulInt(k, DivInt(FromInt(n), d)))

-----------------------------------------------------------------------------
(* Strings *)

CharAt(s, i) == SubSeq(s, i, i)

\* s.startsWith(p)
StartsWith(s, p) == Len(s) >= Len(p) /\ SubSeq(s, 1, Len(p)) = p

\* s.endsWith(p)
EndsWith(s, p) == Len(s) >= Len(p) /\ SubSeq(s, Len(s) - Len(p) + 1, Len(s)) = p

\* s.substring(k)
Substring(s, k) == SubSeq(s, k + 1, Len(s))

\* s.includes(p)
Includes(s, p) == \E i \in 1..(Len(s) - Len(p) + 1) : SubSeq(s, i, i + Len(p) - 1) = p

\* the positions of the separator in s
SeparatorPositions(s, sep) == {i \in 1..Len(s) : CharAt(s, i) = sep}

\* the position of the k-th separator; 0 before the first, Len(s) + 1 after the last
SeparatorAt(s, sep, k) ==
    IF k = 0 THEN 0
    ELSE IF k > Cardinality(SeparatorPositions(s, sep)) THEN Len(s) + 1
    ELSE CHOOSE i \in SeparatorPositions(s, sep) :
             Cardinality({j \in SeparatorPositions(s, sep) : j < i}) = k - 1

\* s.split(sep) for a one-character separator
Split(s, sep) ==
    [k \in 1..(Cardinality(SeparatorPositions(s, sep)) + 1) |->
        SubSeq(s, SeparatorAt(s, sep, k - 1) + 1, SeparatorAt(s, sep, k) - 1)]

RECURSIVE Joined(_)
\* the strings of a sequence one after the other
Joined(pieces) == IF Len(pieces) = 0 THEN "" ELSE Head(pieces) \o Joined(Tail(pieces))

\* s.replace(/pattern/g, by) for a pattern of two different characters
ReplaceAll(s, pattern, by) ==
    Joined([i \in 1..Len(s) |->
              IF i < Len(s) /\ SubSeq(s, i, i + 1) = pattern THEN by
              ELSE IF i > 1 /\ SubSeq(s, i - 1, i) = pattern THEN ""
              ELSE CharAt(s, i)])

Whitespace == {" "}

\* the positions of s that hold no whitespace
InkPositions(s) == {i \in 1..Len(s) : CharAt(s, i) \notin Whitespace}

\* s.trim()
Trim(s) ==
    IF InkPositions(s) = {} THEN ""
    ELSE SubSeq(s, CHOOSE i \in InkPositions(s) : \A j \in InkPositions(s) : i <= j,
                   CHOOSE i \in InkPositions(s) : \A j \in InkPositions(s) : i >= j)

\* the text of a string node; a missing (undefined) description reads as ""
Text(n) == IF n.t = "str" THEN n.v ELSE ""


Digits == {"0", "1", "2", "3", "4", "5", "6", "7", "8", "9"}

DigitValue(c) ==
    CASE c = "0" -> 0 [] c = "1" -> 1 [] c = "2" -> 2 [] c = "3" -> 3 [] c = "4" -> 4
      [] c = "5" -> 5 [] c = "6" -> 6 [] c = "7" -> 7 [] c = "8" -> 8 [] c = "9" -> 9

IsDigits(s) == Len(s) > 0 /\ \A i \in 1..Len(s) : CharAt(s, i) \in Digits

RECURSIVE ParseNat(_)
\* the value of a string of decimal digits
ParseNat(s) ==
    IF Len(s) = 0 THEN 0
    ELSE 10 * ParseNat(SubSeq(s, 1, Len(s) - 1)) + DigitValue(CharAt(s, Len(s)))

\* s.toUpperCase(), for the HTTP method names
ToUpperCase(s) ==
    CASE s = "get" -> "GET" [] s = "post" -> "POST" [] s = "put" -> "PUT"
      [] s = "delete" -> "DELETE" [] s = "patch" -> "PATCH" [] s = "options" -> "OPTIONS"
      [] s = "head" -> "HEAD" [] s = "trace" -> "TRACE" [] OTHER -> s

-----------------------------------------------------------------------------
(* constants.ts *)

\* SEVERITY_SCORE_WEIGHTS, in tenths: error 1.0, warning 0.2, info 0.0
SeverityTenthsError == 10
SeverityTenthsWarning == 2
SeverityTenthsInfo == 0

\* CRITERIA_WEIGHTS
WeightSchemaTypes == 20
WeightDescriptionDocs == 20
WeightPathsOperations == 15
WeightResponseCodes == 15
WeightExamples == 10
WeightSecurity == 10
WeightMiscellaneous == 10

-----------------------------------------------------------------------------
(* helper-functions: violations, calculateScore, reference resolution *)

\* a RuleViolation (the suggestion text is fixed by the message and left out)
Violation(path, operation, location, message, severity) ==
    [path |-> path, operation |-> operation, location |-> location,
     message |-> message, severity |-> severity]

\* violations.filter(v => v.severity === severity).length
CountSeverity(violations, severity) ==
    Cardinality({i \in 1..Len(violations) : violations[i].severity = severity})

HasSeverity(violations, severity) ==
    \E i \in 1..Len(violations) : violations[i].severity = severity

\* the number a severity weight of SEVERITY_SCORE_WEIGHTS is: the double nearest to
\* the decimal literal
SeverityWeight(tenths) == Tenths(tenths)

\* errorViolations * error + warningViolations * warning + infoViolations * info
WeightedViolations(violations) ==
    Add(Add(MulInt(CountSeverity(violations, "error"), SeverityWeight(SeverityTenthsError)),
            MulInt(CountSeverity(violations, "warning"), SeverityWeight(SeverityTenthsWarning))),
        MulInt(CountSeverity(violations, "info"), SeverityWeight(SeverityTenthsInfo)))

\* Math.round(weight * (1 - weightedViolationPercentage)), for totalItems >= 1
RoundedScore(violations, totalItems, weight) ==
    MathRound(MulInt(weight, Sub(FromInt(1), DivInt(WeightedViolations(violations), totalItems))))

\* the cap of calculateScore: weight - 2 at most when there is an error
ErrorCapped(violations, score, weight) ==
    IF CountSeverity(violations, "error") > 0 /\ score > weight - 2 THEN weight - 2 ELSE score

\* calculateScore without the final Math.max(0, score)
calculateScore_unclamped(violations, totalItems, weight) ==
    ErrorCapped(violations, RoundedScore(violations, Max(1, totalItems), weight), weight)

\* calculateScore(violations, totalItems, weight)
calculateScore(violations, totalItems, weight) ==
    Max(0, ErrorCapped(violations, RoundedScore(violations, Max(1, totalItems), weight), weight))

\* names every object inherits from Object.prototype: current[part] finds them
InheritedKeys == {"constructor", "toString", "valueOf", "hasOwnProperty"}
BuiltinFunction == [t |-> "function", v |-> "", kids |-> <<>>]
Num(k) == [t |-> "num", v |-> ToString(k), kids |-> <<>>]

\* current[part] on any non-nullish value, as JavaScript reads a property
Prop(current, part) ==
    CASE HasKey(current, part) -> Get(current, part)
      [] current.t = "arr" /\ part = "length" -> Num(Size(current))
      [] current.t = "str" /\ part = "length" -> Num(Len(current.v))
      [] current.t = "str" /\ IsDigits(part) /\ ParseNat(part) < Len(current.v)
            -> Str(CharAt(current.v, ParseNat(part) + 1))
      [] part \in InheritedKeys -> BuiltinFunction
      [] OTHER -> Undefined

\* !!x for every value Prop can return
TruthyValue(n) ==
    CASE n.t = "function" -> TRUE
      [] n.t = "num" -> n.v # "0"
      [] OTHER -> Truthy(n)

RECURSIVE WalkParts(_, _)
\* the loop of resolveReference: for (const part of parts) ...
WalkParts(parts, current) ==
    IF Len(parts) = 0 THEN current
    ELSE IF ~TruthyValue(Prop(current, Head(parts))) THEN Undefined
         ELSE WalkParts(Tail(parts), Prop(current, Head(parts)))

\* resolveReference returning an empty object where the walk finds nothing
resolveReference_lenient(ref, root) ==
    IF ~StartsWith(ref, "#/") THEN Undefined
    ELSE LET found == WalkParts(Split(Substring(ref, 2), "/"), root)
         IN  IF TruthyValue(found) THEN found ELSE Obj(<<>>)

\* resolveReference(ref, spec)
resolveReference(ref, root) ==
    IF ~StartsWith(ref, "#/") THEN Undefined
    ELSE WalkParts(Split(Substring(ref, 2), "/"), root)

\* part.replace(/~1/g, '/').replace(/~0/g, '~')
DecodedPart(part) == ReplaceAll(ReplaceAll(part, "~1", "/"), "~0", "~")

\* decodedPart in current, for an object or array current: own and inherited names
InObject(current, part) ==
    \/ HasKey(current, part)
    \/ current.t = "arr" /\ part = "length"
    \/ part \in InheritedKeys

RECURSIVE WalkDecodedParts(_, _, _)
\* the loop of the rules' own resolveReference: every part is decoded and looked up with
\* the in operator in a current that is an object
WalkDecodedParts(parts, current, absent) ==
    IF Len(parts) = 0 THEN current
    ELSE IF \/ ~TruthyValue(current)
            \/ ~IsObject(current)
            \/ ~InObject(current, DecodedPart(Head(parts)))
    THEN absent
    ELSE WalkDecodedParts(Tail(parts), Prop(current, DecodedPart(Head(parts))), absent)

\* the private ResponseCodesRule.resolveReference(ref, spec) of rules/response-code-rule.ts
Codes_resolveReference(ref, root) ==
    IF ~StartsWith(ref, "#/") THEN JNull
    ELSE WalkDecodedParts(Split(Substring(ref, 2), "/"), root, JNull)

\* the private ExamplesSamplesRule.resolveReference(ref, spec) of rules/examples-rule.ts
Examples_resolveReference(ref, root) ==
    IF ~StartsWith(ref, "#/") THEN Undefined
    ELSE WalkDecodedParts(Split(Substring(ref, 2), "/"), root, Undefined)

\* resolveSchema without the lookup: a reference object stands for itself
resolveNode_unresolved(node, root) == node

\* resolveSchema, resolveParameter, resolveRequestBody, resolveResponse, resolveHeader:
\* the referenced object when the node has a $ref, the node itself otherwise
resolveNode(node, root) ==
    IF HasKey(node, "$ref") THEN resolveReference(Get(node, "$ref").v, root) ELSE node

\* the HTTP method keys, in the order DescriptionDocsRule.checkOperations visits them
HttpMethods == <<"get", "post", "put", "delete", "patch", "options", "head", "trace">>
IsHttpMethod(key) == key \in Range(HttpMethods)

\* Object.entries(pathItem).filter(([key]) => methods.includes(key)): the operations
\* of a path item in key order
OperationEntries(pathItem) == SelectSeq(Entries(pathItem), LAMBDA e : IsHttpMethod(e.k))

-----------------------------------------------------------------------------
(* A rule's outcome: a RuleResult, or a thrown exception (threw) with no result *)

RuleResult(score, maxScore, violations) ==
    [threw |-> FALSE, score |-> score, maxScore |-> maxScore, violations |-> violations]

Thrown == [threw |-> TRUE, score |-> 0, maxScore |-> 0, violations |-> <<>>]

\* what a check adds: its violations and the number of items it examined
Checked(violations, items) == [v |-> violations, n |-> items]
NothingChecked == Checked(<<>>, 0)

\* the violations of a sequence of check outcomes, in order, and their item total
AllViolations(checks) == Flatten([i \in 1..Len(checks) |-> checks[i].v])
AllItems(checks) == SumSeq([i \in 1..Len(checks) |-> checks[i].n])
Combined(checks) == Checked(AllViolations(checks), AllItems(checks))

\* the path items a rule visits: entries of spec.paths, without the guard
\* `if (!pathItem) continue` that every rule applies first
PathEntries_unguarded(root) ==
    IF Truthy(Get(root, "paths")) THEN Entries(Get(root, "paths")) ELSE <<>>

\* the path items a rule visits: the entries of spec.paths whose item is not null
PathEntries(root) ==
    IF Truthy(Get(root, "paths"))
    THEN SelectSeq(Entries(Get(root, "paths")), LAMBDA e : Truthy(e.n))
    ELSE <<>>

\* the operations a rule reads without a null check: [path, method, op]
VisitedOperations(root) ==
    LET entries == PathEntries(root)
    IN  Flatten([i \in 1..Len(entries) |->
            LET e == entries[i]
                ops == IF IsObject(e.n) THEN OperationEntries(e.n) ELSE <<>>
            IN  [j \in 1..Len(ops) |-> [path |-> e.k, method |-> ops[j].k, op |-> ops[j].n]]])

-----------------------------------------------------------------------------
(* DescriptionDocsRule *)

Docs_MIN_DESCRIPTION_LENGTH == 5

\* hasValidDescription(description)
Docs_hasValidDescription(description) ==
    Truthy(description) /\ Len(Trim(Text(description))) >= Docs_MIN_DESCRIPTION_LENGTH

\* isSchemaObject(schema)
Docs_isSchemaObject(schema) == IsObject(schema) /\ ~HasKey(schema, "$ref")

\* the last segment of a $ref: refParts[refParts.length - 1]
LastRefPart(ref) == Split(ref, "/")[Len(Split(ref, "/"))]

Docs_checkInfoDescription(root) ==
    IF ~Docs_hasValidDescription(Get(Get(root, "info"), "description"))
    THEN Checked(<<Violation("info", "", "description",
                     "API info is missing a meaningful description", "error")>>, 1)
    ELSE Checked(<<>>, 1)

\* one parameter of checkParameters: counted always, reported when it resolves
\* and has no meaningful description
Docs_checkParameter(param, pathName, method, root) ==
    LET isRef == HasKey(param, "$ref")
        paramName == IF isRef THEN LastRefPart(Get(param, "$ref").v)
                     ELSE Text(Get(param, "name"))
        paramObj == IF isRef THEN resolveReference(Get(param, "$ref").v, root) ELSE param
    IN  IF TruthyValue(paramObj) /\ ~Docs_hasValidDescription(Get(paramObj, "description"))
        THEN Checked(<<Violation(pathName, method, "parameters." \o paramName,
                "Parameter '" \o paramName \o "' is missing a meaningful description",
                "warning")>>, 1)
        ELSE Checked(<<>>, 1)

Docs_checkParameters(parameters, pathName, method, root) ==
    Combined([i \in 1..Size(parameters) |->
        Docs_checkParameter(parameters.kids[i].n, pathName, method, root)])

Docs_checkRequestBody(requestBody, pathName, method, root) ==
    LET requestBodyObj == resolveNode(requestBody, root)
    IN  IF ~TruthyValue(requestBodyObj) THEN NothingChecked
        ELSE IF ~Docs_hasValidDescription(Get(requestBodyObj, "description"))
        THEN Checked(<<Violation(pathName, method, "requestBody",
                "Request body is missing a meaningful description", "warning")>>, 1)
        ELSE Checked(<<>>, 1)

Docs_checkResponse(statusCode, response, pathName, method, root) ==
    LET responseObj == resolveNode(response, root)
    IN  IF ~TruthyValue(responseObj) THEN NothingChecked
        ELSE IF ~Docs_hasValidDescription(Get(responseObj, "description"))
        THEN Checked(<<Violation(pathName, method, "responses." \o statusCode,
                "Response " \o statusCode \o " is missing a meaningful description",
                "error")>>, 1)
        ELSE Checked(<<>>, 1)

Docs_checkResponses(responses, pathName, method, root) ==
    Combined([i \in 1..Size(responses) |->
        Docs_checkResponse(responses.kids[i].k, responses.kids[i].n, pathName, method, root)])

\* the body of the loop of checkOperations with its first condition inverted: an
\* operation is reported when it has a description or a summary
Docs_checkOperation_inverted(pathItem, method, pathName, root) ==
    LET operation == Get(pathItem, method)
        upper == ToUpperCase(method)
    IN  IF ~Truthy(operation) THEN NothingChecked
        ELSE Combined(<<
            IF Docs_hasValidDescription(Get(operation, "description"))
               \/ Docs_hasValidDescription(Get(operation, "summary"))
            THEN Checked(<<Violation(pathName, upper, "description/summary",
                    "Operation is missing both a meaningful description and summary",
                    "error")>>, 1)
            ELSE Checked(<<>>, 1),
            IF Truthy(Get(operation, "parameters"))
            THEN Docs_checkParameters(Get(operation, "parameters"), pathName, upper, root)
            ELSE NothingChecked,
            IF Truthy(Get(operation, "requestBody"))
            THEN Docs_checkRequestBody(Get(operation, "requestBody"), pathName, upper, root)
            ELSE NothingChecked,
            IF Truthy(Get(operation, "responses"))
            THEN Docs_checkResponses(Get(operation, "responses"), pathName, upper, root)
            ELSE NothingChecked >>)

\* the body of the loop of checkOperations for one method
Docs_checkOperation(pathItem, method, pathName, root) ==
    LET operation == Get(pathItem, method)
        upper == ToUpperCase(method)
    IN  IF ~Truthy(operation) THEN NothingChecked
        ELSE Combined(<<
            IF ~Docs_hasValidDescription(Get(operation, "description"))
               /\ ~Docs_hasValidDescription(Get(operation, "summary"))
            THEN Checked(<<Violation(pathName, upper, "description/summary",
                    "Operation is missing both a meaningful description and summary",
                    "error")>>, 1)
            ELSE Checked(<<>>, 1),
            IF Truthy(Get(operation, "parameters"))
            THEN Docs_checkParameters(Get(operation, "parameters"), pathName, upper, root)
            ELSE NothingChecked,
            IF Truthy(Get(operation, "requestBody"))
            THEN Docs_checkRequestBody(Get(operation, "requestBody"), pathName, upper, root)
            ELSE NothingChecked,
            IF Truthy(Get(operation, "responses"))
            THEN Docs_checkResponses(Get(operation, "responses"), pathName, upper, root)
            ELSE NothingChecked >>)

Docs_checkOperations(pathItem, pathName, root) ==
    Combined([i \in 1..Len(HttpMethods) |->
        Docs_checkOperation(pathItem, HttpMethods[i], pathName, root)])

\* the body of the loop of checkPaths for one path item that is not null
Docs_checkPath(pathName, pathItem, root) ==
    Combined(<<
        IF ~Docs_hasValidDescription(Get(pathItem, "description"))
        THEN Checked(<<Violation(pathName, "", "description",
                "Path is missing a meaningful description", "warning")>>, 1)
        ELSE Checked(<<>>, 1),
        IF Truthy(Get(pathItem, "parameters"))
        THEN Docs_checkParameters(Get(pathItem, "parameters"), pathName, "", root)
        ELSE NothingChecked,
        Docs_checkOperations(pathItem, pathName, root) >>)

Docs_checkPaths(root) ==
    Combined([i \in 1..Len(PathEntries(root)) |->
        Docs_checkPath(PathEntries(root)[i].k, PathEntries(root)[i].n, root)])

Docs_checkProperty(schemaName, propName, property) ==
    IF ~Docs_isSchemaObject(property) THEN NothingChecked
    ELSE IF ~Docs_hasValidDescription(Get(property, "description"))
    THEN Checked(<<Violation("components", "",
            "schemas." \o schemaName \o ".properties." \o propName,
            "Property is missing a meaningful description", "info")>>, 1)
    ELSE Checked(<<>>, 1)

Docs_checkComponentSchema(schemaName, schema) ==
    IF ~Docs_isSchemaObject(schema) THEN NothingChecked
    ELSE Combined(<<
        IF ~Docs_hasValidDescription(Get(schema, "description"))
        THEN Checked(<<Violation("components", "", "schemas." \o schemaName,
                "Schema is missing a meaningful description", "warning")>>, 1)
        ELSE Checked(<<>>, 1),
        IF Text(Get(schema, "type")) = "object" /\ Truthy(Get(schema, "properties"))
        THEN Combined([j \in 1..Size(Get(schema, "properties")) |->
                Docs_checkProperty(schemaName, Get(schema, "properties").kids[j].k,
                                   Get(schema, "properties").kids[j].n)])
        ELSE NothingChecked >>)

Docs_checkComponentSchemas(root) ==
    LET schemas == Get(Get(root, "components"), "schemas")
    IN  IF ~Truthy(schemas) THEN NothingChecked
        ELSE Combined([i \in 1..Size(schemas) |->
                Docs_checkComponentSchema(schemas.kids[i].k, schemas.kids[i].n)])

\* a property read on a null path item (pathItem.description, Object.entries(pathItem))
\* throws; the guard on the visited entries keeps null items out
ReadsNullPathItem(root) == \E e \in Range(PathEntries(root)) : ~IsObject(e.n)

\* the reads of DescriptionDocsRule.evaluate that throw a TypeError:
\* spec.info.description with no info, and '$ref' in response on a null response
\* (a null operation is skipped by `if (!operation) continue`)
Docs_throws(root) ==
    \/ IsNullish(Get(root, "info"))
    \/ ReadsNullPathItem(root)
    \/ \E o \in Range(VisitedOperations(root)) :
          /\ Truthy(o.op)
          /\ Truthy(Get(o.op, "responses"))
          /\ \E r \in Range(Entries(Get(o.op, "responses"))) : ~IsObject(r.n)

\* DescriptionDocsRule.evaluate
Docs_evaluate(root) ==
    IF Docs_throws(root) THEN Thrown
    ELSE LET all == Combined(<<Docs_checkInfoDescription(root), Docs_checkPaths(root),
                               Docs_checkComponentSchemas(root)>>)
         IN  RuleResult(calculateScore(all.v, all.n, WeightDescriptionDocs),
                        WeightDescriptionDocs, all.v)

-----------------------------------------------------------------------------
(* ExamplesSamplesRule *)

\* hasExample(mediaTypeObject) and hasParameterExample(parameterObject)
Examples_hasExample(node) ==
    \/ HasKey(node, "example")
    \/ (HasKey(node, "examples") /\ Size(Get(node, "examples")) > 0)

\* what one check of the rule yields: violations, elements checked, elements with examples
ExampleCheck(violations, checked, withExamples) ==
    [v |-> violations, n |-> checked, ok |-> withExamples]
NoExampleCheck == ExampleCheck(<<>>, 0, 0)

\* the totals of a sequence of example checks
ExampleChecks(checks) ==
    ExampleCheck(Flatten([i \in 1..Len(checks) |-> checks[i].v]),
                 SumSeq([i \in 1..Len(checks) |-> checks[i].n]),
                 SumSeq([i \in 1..Len(checks) |-> checks[i].ok]))

\* one media type of a request body or response
Examples_checkMediaType(mediaTypeObject, path, location, message) ==
    IF Examples_hasExample(mediaTypeObject) THEN ExampleCheck(<<>>, 1, 1)
    ELSE ExampleCheck(<<Violation(path, "", location, message, "warning")>>, 1, 0)

\* checkRequestBodyExamples
Examples_checkRequestBodyExamples(operation, root, operationLocation, path) ==
    LET requestBody == resolveNode(Get(operation, "requestBody"), root)
        content == Get(requestBody, "content")
    IN  IF ~(TruthyValue(requestBody) /\ Truthy(content)) THEN NoExampleCheck
        ELSE ExampleChecks([i \in 1..Size(content) |->
                Examples_checkMediaType(content.kids[i].n, path,
                    operationLocation \o ".requestBody.content." \o content.kids[i].k,
                    "Request body for " \o content.kids[i].k \o " is missing an example.")])

\* the body of the loop of checkResponseExamples for one response
Examples_checkResponse(statusCode, responseOrRef, root, operationLocation, path) ==
    LET response == resolveNode(responseOrRef, root)
        content == Get(response, "content")
    IN  IF ~StartsWith(statusCode, "2") THEN NoExampleCheck
        ELSE IF ~(TruthyValue(response) /\ Truthy(content)) THEN NoExampleCheck
        ELSE ExampleChecks([i \in 1..Size(content) |->
                Examples_checkMediaType(content.kids[i].n, path,
                    operationLocation \o ".responses." \o statusCode \o ".content."
                        \o content.kids[i].k,
                    "Response body for status " \o statusCode \o " (" \o content.kids[i].k
                        \o ") is missing an example.")])

\* checkResponseExamples
Examples_checkResponseExamples(operation, root, operationLocation, path) ==
    LET responses == Get(operation, "responses")
    IN  ExampleChecks([i \in 1..Size(responses) |->
            Examples_checkResponse(responses.kids[i].k, responses.kids[i].n, root,
                                   operationLocation, path)])

\* the body of the loop of checkParameterExamples for the parameter at index
Examples_checkParameter(index, paramOrRef, root, operationLocation, path) ==
    LET parameter == resolveNode(paramOrRef, root)
        paramName == IF Truthy(Get(parameter, "name")) THEN Text(Get(parameter, "name"))
                     ELSE "param_at_index_" \o ToString(index)
    IN  IF ~TruthyValue(parameter) THEN NoExampleCheck
        ELSE IF Examples_hasExample(parameter) THEN ExampleCheck(<<>>, 1, 1)
        ELSE ExampleCheck(<<Violation(path, "", operationLocation \o ".parameters." \o paramName,
                "Parameter '" \o paramName \o "' is missing an example.", "info")>>, 1, 0)

\* checkParameterExamples
Examples_checkParameterExamples(operation, root, operationLocation, path) ==
    LET parameters == Get(operation, "parameters")
    IN  ExampleChecks([i \in 1..Size(parameters) |->
            Examples_checkParameter(i - 1, parameters.kids[i].n, root, operationLocation, path)])

\* an operation loop of evaluate that checks the request body whatever the method
Examples_checkOperation_anyMethod(path, method, operation, root) ==
    LET operationLocation == path \o "." \o method
    IN  ExampleChecks(<<
            IF Truthy(Get(operation, "requestBody"))
            THEN Examples_checkRequestBodyExamples(operation, root, operationLocation, path)
            ELSE NoExampleCheck,
            IF Truthy(Get(operation, "responses"))
            THEN Examples_checkResponseExamples(operation, root, operationLocation, path)
            ELSE NoExampleCheck,
            IF Truthy(Get(operation, "parameters"))
            THEN Examples_checkParameterExamples(operation, root, operationLocation, path)
            ELSE NoExampleCheck >>)

\* the body of the loop of evaluate for one operation
Examples_checkOperation(path, method, operation, root) ==
    LET operationLocation == path \o "." \o method
    IN  ExampleChecks(<<
            IF Truthy(Get(operation, "requestBody")) /\ method \in {"post", "put", "patch"}
            THEN Examples_checkRequestBodyExamples(operation, root, operationLocation, path)
            ELSE NoExampleCheck,
            IF Truthy(Get(operation, "responses"))
            THEN Examples_checkResponseExamples(operation, root, operationLocation, path)
            ELSE NoExampleCheck,
            IF Truthy(Get(operation, "parameters"))
            THEN Examples_checkParameterExamples(operation, root, operationLocation, path)
            ELSE NoExampleCheck >>)

\* the reads of ExamplesSamplesRule.evaluate that throw a TypeError:
\* operation.requestBody on a null operation, '$ref' in response on a null 2xx response
Examples_throws(root) ==
    \/ ReadsNullPathItem(root)
    \/ \E o \in Range(VisitedOperations(root)) :
          \/ IsNullish(o.op)
          \/ /\ Truthy(Get(o.op, "responses"))
             /\ \E r \in Range(Entries(Get(o.op, "responses"))) :
                   StartsWith(r.k, "2") /\ ~IsObject(r.n)

\* ExamplesSamplesRule.evaluate
Examples_evaluate(root) ==
    IF ~Truthy(Get(root, "paths")) THEN RuleResult(WeightExamples, WeightExamples, <<>>)
    ELSE IF Examples_throws(root) THEN Thrown
    ELSE LET ops == VisitedOperations(root)
             all == ExampleChecks([i \in 1..Len(ops) |->
                        Examples_checkOperation(ops[i].path, ops[i].method, ops[i].op, root)])
             score == IF all.n > 0 THEN RoundRatioTimes(all.ok, all.n, WeightExamples)
                      ELSE WeightExamples
         IN  RuleResult(Max(0, Min(WeightExamples, score)), WeightExamples, all.v)

-----------------------------------------------------------------------------
(* SecurityRule *)

Security_MUTATING_METHODS == {"post", "put", "patch", "delete"}

RECURSIVE Distinct(_)
\* the distinct elements of a sequence in first-occurrence order: the iteration
\* order of a Set filled with add()
Distinct(s) ==
    IF Len(s) = 0 THEN <<>>
    ELSE LET front == Distinct(SubSeq(s, 1, Len(s) - 1))
             last == s[Len(s)]
         IN  IF last \in Range(front) THEN front ELSE Append(front, last)

\* getDefinedSchemes(spec)
Security_getDefinedSchemes(root) ==
    IF Truthy(Get(Get(root, "components"), "securitySchemes"))
    THEN Keys(Get(Get(root, "components"), "securitySchemes"))
    ELSE <<>>

\* the scheme names of a list of security requirements
SchemeNames(security) ==
    Flatten([i \in 1..Size(security) |-> Keys(security.kids[i].n)])

\* operation.security !== undefined, and not null or empty
Security_hasOwnSecurity(operation) ==
    /\ Get(operation, "security").t # "undefined"
    /\ Get(operation, "security").t # "null"
    /\ Size(Get(operation, "security")) > 0

Security_disablesSecurity(operation) ==
    /\ Get(operation, "security").t # "undefined"
    /\ (Get(operation, "security").t = "null" \/ Size(Get(operation, "security")) = 0)

Security_hasGlobalSecurity(root) ==
    Truthy(Get(root, "security")) /\ Size(Get(root, "security")) > 0

\* operationIsSecured in analyzeOperations
Security_operationIsSecured(operation, root) ==
    IF Get(operation, "security").t # "undefined"
    THEN Security_hasOwnSecurity(operation)
    ELSE Security_hasGlobalSecurity(root)

\* allReferencedSchemes after analyzeOperations, in insertion order
Security_allReferencedSchemes(root) ==
    Distinct(
        (IF Truthy(Get(root, "security")) THEN SchemeNames(Get(root, "security")) ELSE <<>>)
        \o Flatten([i \in 1..Len(VisitedOperations(root)) |->
               LET operation == VisitedOperations(root)[i].op
               IN  IF Security_hasOwnSecurity(operation)
                   THEN SchemeNames(Get(operation, "security")) ELSE <<>>]))

\* the violations analyzeOperations records for one operation
Security_operationViolations(o, root) ==
    LET isMutating == o.method \in Security_MUTATING_METHODS
        location == o.path \o "." \o o.method
    IN  (IF isMutating /\ Security_disablesSecurity(o.op)
         THEN <<Violation(o.path, "", location,
                  "Mutating operation " \o ToUpperCase(o.method) \o " " \o o.path
                      \o " explicitly disables security (security: []).", "warning")>>
         ELSE <<>>)
        \o
        (IF isMutating /\ ~Security_operationIsSecured(o.op, root)
            /\ Len(Security_getDefinedSchemes(root)) > 0
         THEN <<Violation(o.path, "", location,
                  "Mutating operation " \o ToUpperCase(o.method) \o " " \o o.path
                      \o " is not secured, but security schemes are defined.", "warning")>>
         ELSE <<>>)

\* the mutating operations visited by analyzeOperations
Security_mutatingOperations(root) ==
    SelectSeq(VisitedOperations(root), LAMBDA o : o.method \in Security_MUTATING_METHODS)

\* potentialSecurityPoints
Security_potentialSecurityPoints(root) == Len(Security_mutatingOperations(root))

\* securedPoints
Security_securedPoints(root) ==
    Len(SelectSeq(Security_mutatingOperations(root),
                  LAMBDA o : Security_operationIsSecured(o.op, root)))

\* validateReferencedSchemes
Security_validateReferencedSchemes(root) ==
    LET referenced == Security_allReferencedSchemes(root)
    IN  Flatten([i \in 1..Len(referenced) |->
            IF referenced[i] \notin Range(Security_getDefinedSchemes(root))
            THEN <<Violation("", "", "components.securitySchemes / security definitions",
                     "Security scheme '" \o referenced[i]
                         \o "' is referenced but not defined in components.securitySchemes.",
                     "error")>>
            ELSE <<>>])

\* checkUnusedDefinedSchemes
Security_checkUnusedDefinedSchemes(root) ==
    LET defined == Security_getDefinedSchemes(root)
    IN  Flatten([i \in 1..Len(defined) |->
            IF defined[i] \notin Range(Security_allReferencedSchemes(root))
            THEN <<Violation("", "", "components.securitySchemes." \o defined[i],
                     "Security scheme '" \o defined[i] \o "' is defined but never referenced.",
                     "info")>>
            ELSE <<>>])

\* checkMissingSecuritySchemes with the test on the defined schemes reversed
Security_checkMissingSecuritySchemes_whenDefined(root) ==
    IF Security_potentialSecurityPoints(root) > 0 /\ Len(Security_getDefinedSchemes(root)) > 0
    THEN <<Violation("", "", "components.securitySchemes / security",
             "API has mutating operations but no security schemes are defined.", "error")>>
    ELSE <<>>

\* checkMissingSecuritySchemes
Security_checkMissingSecuritySchemes(root) ==
    IF Security_potentialSecurityPoints(root) > 0 /\ Len(Security_getDefinedSchemes(root)) = 0
    THEN <<Violation("", "", "components.securitySchemes / security",
             "API has mutating operations but no security schemes are defined.", "error")>>
    ELSE <<>>

\* calculateScore that gives a third of the weight when there is nothing to secure
Security_calculateScore_third(violations, potentialSecurityPoints, securedPoints, weight) ==
    LET errors == CountSeverity(violations, "error")
        base == IF errors > 0 THEN Max(0, weight - errors * (weight \div 2))
                ELSE IF potentialSecurityPoints > 0
                THEN RoundRatioTimes(securedPoints, potentialSecurityPoints, weight)
                ELSE RoundRatioTimes(1, 3, weight)
    IN  Max(0, Min(weight, base))

\* SecurityRule.calculateScore; weight / 2 and weight * 0.1 are whole for the weight 10
Security_calculateScore(violations, potentialSecurityPoints, securedPoints, weight) ==
    LET errors == CountSeverity(violations, "error")
        warnings == CountSeverity(violations, "warning")
        base == IF errors > 0 THEN Max(0, weight - errors * (weight \div 2))
                ELSE IF potentialSecurityPoints > 0
                THEN RoundRatioTimes(securedPoints, potentialSecurityPoints, weight)
                ELSE weight
        penalised == IF errors = 0 /\ warnings > 0
                     THEN Max(0, base - warnings * (weight \div 10))
                     ELSE base
    IN  Max(0, Min(weight, penalised))

\* the reads of SecurityRule.evaluate that throw: operation.security on a null operation
Security_throws(root) ==
    \/ ReadsNullPathItem(root)
    \/ \E o \in Range(VisitedOperations(root)) : IsNullish(o.op)

\* SecurityRule.evaluate
Security_evaluate(root) ==
    IF Security_throws(root) THEN Thrown
    ELSE LET ops == VisitedOperations(root)
             violations ==
                 Flatten([i \in 1..Len(ops) |-> Security_operationViolations(ops[i], root)])
                 \o Security_validateReferencedSchemes(root)
                 \o Security_checkUnusedDefinedSchemes(root)
                 \o Security_checkMissingSecuritySchemes(root)
         IN  RuleResult(Security_calculateScore(violations,
                            Security_potentialSecurityPoints(root),
                            Security_securedPoints(root), WeightSecurity),
                        WeightSecurity, violations)

-----------------------------------------------------------------------------
(* ResponseCodesRule *)

\* EXPECTED_STATUS_CODES[method].success
Codes_expectedSuccessCodes(method) ==
    CASE method = "get" -> {"200", "206", "304"}
      [] method = "post" -> {"200", "201", "202"}
      [] method = "put" -> {"200", "201", "204"}
      [] method = "patch" -> {"200", "204"}
      [] method = "delete" -> {"200", "202", "204"}
      [] method = "head" -> {"200", "304"}
      [] method = "options" -> {"200", "204"}
      [] method = "trace" -> {"200"}
      [] OTHER -> {}

Codes_uncommonCodes ==
    {"203", "205", "208", "226", "300", "305", "306", "307", "308",
     "402", "407", "408", "411", "414", "416", "417", "418", "421", "423", "424", "426",
     "428", "431", "451", "505", "506", "507", "508", "510", "511"}

\* a check of one operation: the violations pushed and the hasIssues flag returned
Issues(violations, hasIssues) == [v |-> violations, issues |-> hasIssues]
NoIssues == Issues(<<>>, FALSE)

\* the violations of a sequence of checks in order; hasIssues if any set it
AllIssues(checks) ==
    Issues(Flatten([i \in 1..Len(checks) |-> checks[i].v]),
           \E i \in 1..Len(checks) : checks[i].issues)

\* a violation of ResponseCodesRule, which sets hasIssues unless it is informational
Codes_issue(path, location, message, severity, hasIssues) ==
    Issues(<<Violation(path, "", location, message, severity)>>, hasIssues)

\* noPathsViolation(): the full weight together with one error
Codes_noPathsViolation ==
    RuleResult(WeightResponseCodes, WeightResponseCodes,
               <<Violation("", "", "paths", "No paths defined in the API specification",
                           "error")>>)

Codes_checkSuccessCodes(path, method, statusCodes) ==
    LET hasSuccessCode == \E c \in Range(statusCodes) : StartsWith(c, "2") \/ c = "default"
        definedSuccessCodes == SelectSeq(statusCodes, LAMBDA c : StartsWith(c, "2"))
        location == path \o "." \o method \o ".responses"
    IN  IF ~hasSuccessCode
        THEN Codes_issue(path, location,
                 ToUpperCase(method) \o " operation is missing success response codes",
                 "error", TRUE)
        ELSE IF Len(definedSuccessCodes) > 0
                /\ ~\E c \in Range(definedSuccessCodes) : c \in Codes_expectedSuccessCodes(method)
        THEN Codes_issue(path, location,
                 ToUpperCase(method) \o " operation has unusual success response codes",
                 "warning", TRUE)
        ELSE NoIssues

Codes_checkClientErrorCodes(path, method, statusCodes, operation, root) ==
    LET codes == Range(statusCodes)
        location == path \o "." \o method \o ".responses"
        secured == \/ (Truthy(Get(operation, "security")) /\ Size(Get(operation, "security")) > 0)
                   \/ (Truthy(Get(root, "security")) /\ Size(Get(root, "security")) > 0)
    IN  AllIssues(<<
            IF ~\E c \in codes : StartsWith(c, "4")
            THEN Codes_issue(path, location,
                     ToUpperCase(method) \o " operation is missing client error response codes",
                     "warning", TRUE)
            ELSE NoIssues,
            IF secured /\ "401" \notin codes /\ "403" \notin codes
            THEN Codes_issue(path, location,
                     ToUpperCase(method) \o " operation with security requirements is missing "
                         \o "authentication/authorization error codes",
                     "warning", TRUE)
            ELSE NoIssues,
            IF method \in {"get", "put", "patch", "delete"} /\ Includes(path, "{")
               /\ "404" \notin codes
            THEN Codes_issue(path, location,
                     ToUpperCase(method)
                         \o " operation on a resource should include a 404 Not Found response",
                     "warning", TRUE)
            ELSE NoIssues,
            IF method \in {"post", "put", "patch"} /\ Truthy(Get(operation, "requestBody"))
               /\ "400" \notin codes /\ "422" \notin codes
            THEN Codes_issue(path, location,
                     ToUpperCase(method)
                         \o " operation with request body should include validation error responses",
                     "warning", TRUE)
            ELSE NoIssues >>)

Codes_checkServerErrorCodes(path, method, statusCodes) ==
    IF ~\E c \in Range(statusCodes) : StartsWith(c, "5")
    THEN Codes_issue(path, path \o "." \o method \o ".responses",
             ToUpperCase(method) \o " operation is missing server error response codes",
             "warning", TRUE)
    ELSE NoIssues

Codes_checkDefaultResponse(path, method, statusCodes) ==
    IF "default" \notin Range(statusCodes)
    THEN Codes_issue(path, path \o "." \o method \o ".responses",
             ToUpperCase(method) \o " operation is missing a default response", "info", FALSE)
    ELSE NoIssues

\* the body of the loop of checkResponseContentAndSchema for one response; the
\* reference is resolved against the operation, which is what the call passes
Codes_checkResponse(path, method, statusCode, responseOrRef, operation) ==
    LET response == resolveNode(responseOrRef, operation)
        location == path \o "." \o method \o ".responses." \o statusCode
        content == Get(response, "content")
        noContent == ~Truthy(content) \/ Size(content) = 0
    IN  IF ~TruthyValue(response)
        THEN Codes_issue(path, location, "Could not resolve response reference", "error", TRUE)
        ELSE AllIssues(<<
            IF ~Truthy(Get(response, "description")) \/ Trim(Text(Get(response, "description"))) = ""
            THEN Codes_issue(path, location,
                     "Response " \o statusCode \o " is missing a description", "warning", TRUE)
            ELSE NoIssues,
            IF StartsWith(statusCode, "2") /\ statusCode # "204" /\ noContent
               /\ (method = "get" \/ method = "post" \/ (method = "put" /\ statusCode = "200"))
            THEN Codes_issue(path, location,
                     "Success response " \o statusCode \o " is missing content definition",
                     "warning", TRUE)
            ELSE NoIssues,
            IF (StartsWith(statusCode, "4") \/ StartsWith(statusCode, "5")) /\ noContent
            THEN Codes_issue(path, location,
                     "Error response " \o statusCode \o " is missing content definition",
                     "info", FALSE)
            ELSE NoIssues,
            IF Truthy(content)
            THEN AllIssues([i \in 1..Size(content) |->
                     IF ~Truthy(Get(content.kids[i].n, "schema"))
                     THEN Codes_issue(path, location \o ".content." \o content.kids[i].k,
                              "Response content is missing a schema definition", "warning", TRUE)
                     ELSE NoIssues])
            ELSE NoIssues >>)

Codes_checkResponseContentAndSchema(path, method, responses, operation) ==
    AllIssues([i \in 1..Size(responses) |->
        Codes_checkResponse(path, method, responses.kids[i].k, responses.kids[i].n, operation)])

\* /^[1-5][0-9][0-9]$/.test(code)
Codes_isStatusCode(code) ==
    /\ Len(code) = 3
    /\ CharAt(code, 1) \in {"1", "2", "3", "4", "5"}
    /\ CharAt(code, 2) \in Digits
    /\ CharAt(code, 3) \in Digits

\* the body of the loop of checkStatusCodeValidity for one code
Codes_checkStatusCode(path, method, code) ==
    LET location == path \o "." \o method \o ".responses." \o code
    IN  IF code = "default" THEN NoIssues
        ELSE IF ~Codes_isStatusCode(code)
        THEN Codes_issue(path, location, "Invalid HTTP status code: " \o code, "error", TRUE)
        ELSE AllIssues(<<
            IF ParseNat(code) >= 100 /\ ParseNat(code) < 200
            THEN Codes_issue(path, location,
                     "Unusual use of 1xx informational status code: " \o code, "info", FALSE)
            ELSE NoIssues,
            IF code \in Codes_uncommonCodes
            THEN Codes_issue(path, location, "Uncommon HTTP status code: " \o code, "info", FALSE)
            ELSE NoIssues >>)

Codes_checkStatusCodeValidity(path, method, statusCodes) ==
    AllIssues([i \in 1..Len(statusCodes) |-> Codes_checkStatusCode(path, method, statusCodes[i])])

Codes_checkOperationResponses(path, method, operation, root) ==
    LET responses == Get(operation, "responses")
        statusCodes == Keys(responses)
    IN  AllIssues(<<
            Codes_checkSuccessCodes(path, method, statusCodes),
            Codes_checkClientErrorCodes(path, method, statusCodes, operation, root),
            Codes_checkServerErrorCodes(path, method, statusCodes),
            Codes_checkDefaultResponse(path, method, statusCodes),
            Codes_checkResponseContentAndSchema(path, method, responses, operation),
            Codes_checkStatusCodeValidity(path, method, statusCodes) >>)

\* evaluateOperation that goes on to the other response checks after the error
Codes_evaluateOperation_unskipped(path, method, operation, root) ==
    IF ~Truthy(Get(operation, "responses")) \/ Size(Get(operation, "responses")) = 0
    THEN AllIssues(<<
             Codes_issue(path, path \o "." \o method,
                 ToUpperCase(method) \o " operation is missing response definitions",
                 "error", TRUE),
             Codes_checkOperationResponses(path, method, operation, root) >>)
    ELSE Codes_checkOperationResponses(path, method, operation, root)

Codes_evaluateOperation(path, method, operation, root) ==
    IF ~Truthy(Get(operation, "responses")) \/ Size(Get(operation, "responses")) = 0
    THEN Codes_issue(path, path \o "." \o method,
             ToUpperCase(method) \o " operation is missing response definitions", "error", TRUE)
    ELSE Codes_checkOperationResponses(path, method, operation, root)

\* the reads of ResponseCodesRule.evaluate that throw a TypeError:
\* operation.responses on a null operation, '$ref' in response on a null response
Codes_throws(root) ==
    \/ ReadsNullPathItem(root)
    \/ \E o \in Range(VisitedOperations(root)) :
          \/ IsNullish(o.op)
          \/ /\ Truthy(Get(o.op, "responses"))
             /\ \E r \in Range(Entries(Get(o.op, "responses"))) : ~IsObject(r.n)

\* ResponseCodesRule.evaluate; calculateScore is handed operationsWithIssues
Codes_evaluate(root) ==
    IF ~Truthy(Get(root, "paths")) \/ Size(Get(root, "paths")) = 0 THEN Codes_noPathsViolation
    ELSE IF Codes_throws(root) THEN Thrown
    ELSE LET ops == VisitedOperations(root)
             outcomes == [i \in 1..Len(ops) |->
                 Codes_evaluateOperation(ops[i].path, ops[i].method, ops[i].op, root)]
             violations == Flatten([i \in 1..Len(ops) |-> outcomes[i].v])
             operationsWithIssues == Cardinality({i \in 1..Len(ops) : outcomes[i].issues})
         IN  RuleResult(calculateScore(violations, operationsWithIssues, WeightResponseCodes),
                        WeightResponseCodes, violations)

-----------------------------------------------------------------------------
(* MiscellaneousBestPracticesRule *)

Misc_MIN_PATHS_FOR_COMPONENT_EXPECTATION == 5

LowerLetters == "abcdefghijklmnopqrstuvwxyz"
UpperLetters == "ABCDEFGHIJKLMNOPQRSTUVWXYZ"
LowerLetterSet == {CharAt(LowerLetters, i) : i \in 1..Len(LowerLetters)}
Letters == LowerLetterSet \cup {CharAt(UpperLetters, i) : i \in 1..Len(UpperLetters)}

\* [0-9a-zA-Z-]
IdentifierChars == Digits \cup Letters \cup {"-"}

\* s.indexOf(c) + 1: the position of the first c in s, 0 when there is none
IndexOf(s, c) ==
    IF \E i \in 1..Len(s) : CharAt(s, i) = c
    THEN CHOOSE i \in 1..Len(s) : CharAt(s, i) = c /\ \A j \in 1..(i - 1) : CharAt(s, j) # c
    ELSE 0

\* 0|[1-9]\d*
NumericIdentifier(s) == IsDigits(s) /\ (s = "0" \/ CharAt(s, 1) # "0")

\* [0-9a-zA-Z-]+
BuildIdentifier(s) == Len(s) > 0 /\ \A i \in 1..Len(s) : CharAt(s, i) \in IdentifierChars

\* 0|[1-9]\d*|\d*[a-zA-Z-][0-9a-zA-Z-]*
PrereleaseIdentifier(s) == BuildIdentifier(s) /\ (IsDigits(s) => NumericIdentifier(s))

\* SEMVER_REGEX.test(s): core, then an optional -prerelease, then an optional +build
SEMVER_REGEX(s) ==
    LET plus == IndexOf(s, "+")
        main == IF plus = 0 THEN s ELSE SubSeq(s, 1, plus - 1)
        hyphen == IndexOf(main, "-")
        core == IF hyphen = 0 THEN main ELSE SubSeq(main, 1, hyphen - 1)
        coreParts == Split(core, ".")
    IN  /\ Len(coreParts) = 3
        /\ \A i \in 1..3 : NumericIdentifier(coreParts[i])
        /\ hyphen # 0 =>
              \A part \in Range(Split(Substring(main, hyphen), ".")) : PrereleaseIdentifier(part)
        /\ plus # 0 =>
              \A part \in Range(Split(Substring(s, plus), ".")) : BuildIdentifier(part)

\* the lower case of one character
LowerChar(c) ==
    IF \E i \in 1..Len(UpperLetters) : CharAt(UpperLetters, i) = c
    THEN CharAt(LowerLetters, CHOOSE i \in 1..Len(UpperLetters) : CharAt(UpperLetters, i) = c)
    ELSE c

RECURSIVE ToLowerCase(_)
\* s.toLowerCase()
ToLowerCase(s) ==
    IF Len(s) = 0 THEN ""
    ELSE IF Len(s) = 1 THEN LowerChar(s)
    ELSE ToLowerCase(SubSeq(s, 1, Len(s) \div 2))
         \o ToLowerCase(SubSeq(s, Len(s) \div 2 + 1, Len(s)))

\* the i flag of URL_REGEX
StartsWithIgnoreCase(s, p) ==
    Len(s) >= Len(p) /\ \A i \in 1..Len(p) : LowerChar(CharAt(s, i)) = CharAt(p, i)

NoWhitespace(s) == \A i \in 1..Len(s) : CharAt(s, i) \notin Whitespace

\* [^\s/$.?#].[^\s]*$ on the text after the scheme
UrlRest(rest) ==
    /\ Len(rest) >= 2
    /\ CharAt(rest, 1) \notin Whitespace \cup {"/", "$", ".", "?", "#"}
    /\ NoWhitespace(Substring(rest, 2))

\* URL_REGEX.test(s)
URL_REGEX(s) ==
    \/ \E scheme \in {"http://", "https://", "urn:"} :
          StartsWithIgnoreCase(s, scheme) /\ UrlRest(Substring(s, Len(scheme)))
    \/ (StartsWith(s, "/") /\ NoWhitespace(s))

\* what one check of the rule yields: the violations pushed, the points scored
Points(violations, score) == [v |-> violations, score |-> score]

\* a violation of the rule (the messages are written with ' for the backquote)
Misc_violation(path, location, message, severity) ==
    Violation(path, "", location, message, severity)

Misc_checkVersioning(root) ==
    LET version == Get(Get(root, "info"), "version")
    IN  IF ~Truthy(version)
        THEN Points(<<Misc_violation("", "info.version",
                 "API version ('info.version') is missing.", "warning")>>, 0)
        ELSE IF SEMVER_REGEX(Text(version)) THEN Points(<<>>, 2)
        ELSE Points(<<Misc_violation("", "info.version",
                 "API version '" \o Text(version)
                     \o "' is not in a standard semantic version format.", "info")>>, 1)

\* s.url && URL_REGEX.test(s.url)
Misc_validUrl(node) == Truthy(Get(node, "url")) /\ URL_REGEX(Text(Get(node, "url")))

\* the body of the loop of checkServers for the server at index
Misc_checkServer(server, index) ==
    (IF ~Misc_validUrl(server)
     THEN <<Misc_violation("", "servers[" \o ToString(index) \o "].url",
              "Server URL '" \o Text(Get(server, "url")) \o "' is invalid or missing.",
              "warning")>>
     ELSE <<>>)
    \o
    (IF ~Truthy(Get(server, "description"))
     THEN <<Misc_violation("", "servers[" \o ToString(index) \o "]",
              "Server at URL '" \o Text(Get(server, "url")) \o "' is missing a description.",
              "info")>>
     ELSE <<>>)

Misc_checkServers(root) ==
    LET servers == Get(root, "servers")
    IN  IF ~(Truthy(servers) /\ Size(servers) > 0)
        THEN Points(<<Misc_violation("", "servers",
                 "The 'servers' array is missing or empty.", "warning")>>, 0)
        ELSE Points(Flatten([i \in 1..Size(servers) |->
                        Misc_checkServer(servers.kids[i].n, i - 1)]),
                    IF \A i \in 1..Size(servers) : Misc_validUrl(servers.kids[i].n)
                    THEN 2 ELSE 1)

\* definedTags: the names of the root tags
Misc_definedTags(root) ==
    LET tags == Get(root, "tags")
    IN  IF Truthy(tags)
        THEN {Text(Get(tags.kids[i].n, "name")) :
                 i \in {j \in 1..Size(tags) : Truthy(Get(tags.kids[j].n, "name"))}}
        ELSE {}

\* the values of all path items that are operations with a tags array
Misc_taggedOperations(root) ==
    Flatten([i \in 1..Len(PathEntries(root)) |->
        SelectSeq([j \in 1..Size(PathEntries(root)[i].n) |-> PathEntries(root)[i].n.kids[j].n],
                  LAMBDA op : Get(op, "tags").t = "arr")])

\* usedTagsInOps, in insertion order
Misc_usedTagsInOps(root) ==
    Distinct(Flatten([i \in 1..Len(Misc_taggedOperations(root)) |->
        LET tags == Get(Misc_taggedOperations(root)[i], "tags")
        IN  [j \in 1..Size(tags) |-> Text(tags.kids[j].n)]]))

Misc_checkTags(root) ==
    LET tags == Get(root, "tags")
        hasTags == Truthy(tags) /\ Size(tags) > 0
        definedPoints ==
            IF ~hasTags THEN 0
            ELSE IF \A i \in 1..Size(tags) : Truthy(Get(tags.kids[i].n, "description"))
            THEN 2 ELSE 1
        operationsExist == Len(Misc_taggedOperations(root)) > 0
        used == Misc_usedTagsInOps(root)
        defined == Misc_definedTags(root)
    IN  IF operationsExist /\ Len(used) > 0
        THEN Points(Flatten([i \in 1..Len(used) |->
                        IF used[i] \notin defined
                        THEN <<Misc_violation("", "operation.tags / spec.tags",
                                 "Tag '" \o used[i] \o "' is used in an operation but not "
                                     \o "defined in the root 'tags' array.", "warning")>>
                        ELSE <<>>]),
                    Max(0, Min(definedPoints + 1, 3)))
        ELSE IF operationsExist /\ defined # {}
        THEN Points(<<Misc_violation("", "operations",
                 "Tags are defined, but no operations use them.", "info")>>, definedPoints)
        ELSE IF operationsExist
        THEN Points(<<Misc_violation("", "spec.tags / operations",
                 "Operations exist but no tags are defined or used. Consider using tags.",
                 "info")>>, definedPoints)
        ELSE Points(<<>>, definedPoints)

RECURSIVE Tokens(_)
\* the keys and string values of a JSON tree: the quoted tokens of JSON.stringify
Tokens(n) ==
    CASE n.t = "str" -> {n.v}
      [] n.t = "obj" ->
            {n.kids[i].k : i \in 1..Len(n.kids)}
            \cup UNION {Tokens(n.kids[i].n) : i \in 1..Len(n.kids)}
      [] n.t = "arr" -> UNION {Tokens(n.kids[i].n) : i \in 1..Len(n.kids)}
      [] OTHER -> {}

RECURSIVE JsonEscape(_)
\* the text JSON.stringify writes between the quotes of a string
JsonEscape(s) ==
    IF Len(s) = 0 THEN ""
    ELSE IF Len(s) = 1
    THEN (CASE s = "\\" -> "\\\\" [] s = "\"" -> "\\\"" [] OTHER -> s)
    ELSE JsonEscape(SubSeq(s, 1, Len(s) \div 2))
         \o JsonEscape(SubSeq(s, Len(s) \div 2 + 1, Len(s)))

\* JSON.stringify(spec).includes('"\\$ref"'): the searched text is a quote, a
\* backslash, $ref and a quote, so it can only be one whole quoted token
Misc_specStringIncludesRef(root) == \E token \in Tokens(root) : JsonEscape(token) = "\\$ref"

Misc_componentsDefined(root) ==
    LET components == Get(root, "components")
    IN  Truthy(components)
        /\ \E i \in 1..Size(components) :
              Truthy(components.kids[i].n) /\ Size(components.kids[i].n) > 0

Misc_checkComponentsReuse(root) ==
    LET defined == IF Misc_componentsDefined(root) THEN 1 ELSE 0
        numPaths == IF Truthy(Get(root, "paths")) THEN Size(Get(root, "paths")) ELSE 0
    IN  IF Misc_specStringIncludesRef(root) THEN Points(<<>>, defined + 1)
        ELSE IF numPaths < Misc_MIN_PATHS_FOR_COMPONENT_EXPECTATION THEN Points(<<>>, defined)
        ELSE IF Misc_componentsDefined(root)
        THEN Points(<<Misc_violation("", "components / various",
                 "Components are defined, but no '$ref' keywords were found, suggesting they "
                     \o "might not be reused.", "info")>>, defined)
        ELSE Points(<<Misc_violation("", "components",
                 "API has several paths but does not define or use reusable components.",
                 "info")>>, defined)

Misc_checkInfoCompleteness(root) ==
    LET contact == Get(Get(root, "info"), "contact")
        license == Get(Get(root, "info"), "license")
        hasContact == Truthy(contact)
                      /\ (Truthy(Get(contact, "name")) \/ Truthy(Get(contact, "email"))
                          \/ Truthy(Get(contact, "url")))
        hasLicense == Truthy(license) /\ Truthy(Get(license, "name"))
    IN  Points((IF hasContact THEN <<>>
                ELSE <<Misc_violation("", "info.contact",
                         "Contact information ('info.contact') is missing or empty.", "info")>>)
               \o
               (IF hasLicense THEN <<>>
                ELSE <<Misc_violation("", "info.license",
                         "License information ('info.license.name') is missing.", "info")>>),
               (IF hasContact THEN 1 ELSE 0) + (IF hasLicense THEN 1 ELSE 0))

\* operation.operationId && operation.operationId.trim() !== ""
Misc_hasOperationId(operation) ==
    Truthy(Get(operation, "operationId")) /\ Trim(Text(Get(operation, "operationId"))) # ""

\* the operationIds of the operations before position i
Misc_earlierOperationIds(ops, i) ==
    {Text(Get(ops[j].op, "operationId")) : j \in {k \in 1..(i - 1) : Misc_hasOperationId(ops[k].op)}}

Misc_checkOperationIds(root) ==
    LET ops == VisitedOperations(root)
        allOpsHaveId == \A i \in 1..Len(ops) : Misc_hasOperationId(ops[i].op)
        duplicateFound == \E i \in 1..Len(ops) :
            /\ Misc_hasOperationId(ops[i].op)
            /\ Text(Get(ops[i].op, "operationId")) \in Misc_earlierOperationIds(ops, i)
        violations == Flatten([i \in 1..Len(ops) |->
            IF ~Misc_hasOperationId(ops[i].op)
            THEN <<Misc_violation(ops[i].path, ops[i].path \o "." \o ops[i].method,
                     "Operation " \o ToUpperCase(ops[i].method) \o " " \o ops[i].path
                         \o " is missing an 'operationId'.", "warning")>>
            ELSE IF Text(Get(ops[i].op, "operationId")) \in Misc_earlierOperationIds(ops, i)
            THEN <<Misc_violation(ops[i].path,
                     ops[i].path \o "." \o ops[i].method \o ".operationId",
                     "Duplicate operationId '" \o Text(Get(ops[i].op, "operationId"))
                         \o "'. Must be unique.", "error")>>
            ELSE <<>>])
    IN  Points(violations,
               IF Len(ops) = 0 THEN 2
               ELSE (IF allOpsHaveId THEN 1 ELSE 0)
                    + (IF ~duplicateFound /\ allOpsHaveId THEN 1 ELSE 0))

\* hasValidExternalDoc(doc, loc): its return value
Misc_hasValidExternalDoc(doc) == Truthy(doc) /\ Misc_validUrl(doc)

\* hasValidExternalDoc(doc, loc): the violation it pushes
Misc_externalDocViolations(doc, loc) ==
    IF Truthy(doc) /\ ~Misc_validUrl(doc)
    THEN <<Misc_violation("", loc,
             "ExternalDocumentation object at '" \o loc \o "' is missing a valid 'url'.",
             "info")>>
    ELSE <<>>

\* every member of every path item, with the location checkExternalDocs gives it
Misc_pathItemMembers(root) ==
    Flatten([i \in 1..Len(PathEntries(root)) |->
        LET e == PathEntries(root)[i]
        IN  [j \in 1..Size(e.n) |->
                [loc |-> e.k \o "." \o e.n.kids[j].k \o ".externalDocs",
                 doc |-> Get(e.n.kids[j].n, "externalDocs")]]])

Misc_checkExternalDocs(root) ==
    LET tags == Get(root, "tags")
        tagDocs == IF Truthy(tags)
                   THEN [i \in 1..Size(tags) |->
                            [loc |-> "tags[" \o ToString(i - 1) \o "].externalDocs",
                             doc |-> Get(tags.kids[i].n, "externalDocs")]]
                   ELSE <<>>
        usedInTags == \E i \in 1..Len(tagDocs) : Misc_hasValidExternalDoc(tagDocs[i].doc)
        memberDocs == IF usedInTags THEN <<>> ELSE Misc_pathItemMembers(root)
        visited == tagDocs \o memberDocs
        usedElsewhereCorrectly ==
            \E i \in 1..Len(visited) : Misc_hasValidExternalDoc(visited[i].doc)
        found == Misc_externalDocViolations(Get(root, "externalDocs"), "externalDocs")
                 \o Flatten([i \in 1..Len(visited) |->
                        Misc_externalDocViolations(visited[i].doc, visited[i].loc)])
    IN  IF Misc_hasValidExternalDoc(Get(root, "externalDocs")) THEN Points(<<>>, 1)
        ELSE IF usedElsewhereCorrectly THEN Points(found, 1)
        ELSE IF ~Truthy(Get(root, "externalDocs"))
                /\ ~\E i \in 1..Len(tagDocs) : Truthy(tagDocs[i].doc)
        THEN Points(found \o <<Misc_violation("", "spec",
                 "Consider using 'externalDocs' for links to additional documentation.",
                 "info")>>, 0)
        ELSE Points(found, 0)

\* the maxScore values of the seven checks
Misc_maxInternalScore == 2 + 2 + 3 + 2 + 2 + 2 + 1

\* the reads of MiscellaneousBestPracticesRule.evaluate that throw a TypeError:
\* operation.operationId on a null operation
Misc_throws(root) ==
    \/ ReadsNullPathItem(root)
    \/ \E o \in Range(VisitedOperations(root)) : IsNullish(o.op)

\* MiscellaneousBestPracticesRule.evaluate
Misc_evaluate(root) ==
    IF Misc_throws(root) THEN Thrown
    ELSE LET checks == <<Misc_checkVersioning(root), Misc_checkServers(root),
                         Misc_checkTags(root), Misc_checkComponentsReuse(root),
                         Misc_checkInfoCompleteness(root), Misc_checkOperationIds(root),
                         Misc_checkExternalDocs(root)>>
             achievedInternalScore == SumSeq([i \in 1..Len(checks) |-> checks[i].score])
             finalScore == IF Misc_maxInternalScore > 0
                           THEN RoundRatioTimes(achievedInternalScore, Misc_maxInternalScore,
                                                WeightMiscellaneous)
                           ELSE IF ~Truthy(Get(root, "paths")) \/ Size(Get(root, "paths")) = 0
                           THEN WeightMiscellaneous
                           ELSE 0
         IN  RuleResult(Max(0, Min(WeightMiscellaneous, finalScore)), WeightMiscellaneous,
                        Flatten([i \in 1..Len(checks) |-> checks[i].v]))

-----------------------------------------------------------------------------
(* PathsOperationsRule *)

\* Object.keys(spec.paths)
Paths_paths(root) == Keys(Get(root, "paths"))

\* spec.paths[path]
Paths_pathItem(root, path) == Get(Get(root, "paths"), path)

\* path.split('/').filter(Boolean)
Segments(path) == SelectSeq(Split(path, "/"), LAMBDA segment : segment # "")

\* [a-z][a-z0-9]*(?:-[a-z0-9]+)*
KebabSegment(segment) ==
    /\ Len(segment) > 0
    /\ CharAt(segment, 1) \in LowerLetterSet
    /\ \A i \in 1..Len(segment) :
          /\ CharAt(segment, i) \in LowerLetterSet \cup Digits \cup {"-"}
          /\ CharAt(segment, i) = "-" => (i < Len(segment) /\ CharAt(segment, i + 1) # "-")

\* NAMING_CONVENTIONS.kebabCase.test(path): the text up to the second / is kebab-case
Paths_kebabCase(path) == StartsWith(path, "/") /\ KebabSegment(Split(path, "/")[2])

\* NAMING_CONVENTIONS.pluralCollections.test(path): that text is kebab-case and then an s
Paths_pluralCollections(path) ==
    /\ StartsWith(path, "/")
    /\ LET first == Split(path, "/")[2]
       IN  EndsWith(first, "s") /\ KebabSegment(SubSeq(first, 1, Len(first) - 1))

Paths_verbs ==
    <<"get", "create", "update", "delete", "list", "search", "find", "fetch", "retrieve",
      "remove", "add", "edit", "modify", "process">>

\* a verb of NAMING_CONVENTIONS.verbInPath starts after the / at position i
VerbAt(path, i, verb) ==
    /\ CharAt(path, i) = "/"
    /\ i + Len(verb) <= Len(path)
    /\ ToLowerCase(SubSeq(path, i + 1, i + Len(verb))) = verb

\* path.match(NAMING_CONVENTIONS.verbInPath): match[1] of the leftmost match, "" for null
Paths_verbInPath(path) ==
    LET hits == {i \in 1..Len(path) : \E v \in Range(Paths_verbs) : VerbAt(path, i, v)}
    IN  IF hits = {} THEN ""
        ELSE LET i == CHOOSE h \in hits : \A g \in hits : h <= g
                 v == CHOOSE w \in Range(Paths_verbs) : VerbAt(path, i, w)
             IN  SubSeq(path, i + 1, i + Len(v))

\* segments[segments.length - 1], "" when there is no segment
LastSegment(path) ==
    IF Len(Segments(path)) = 0 THEN "" ELSE Segments(path)[Len(Segments(path))]

Paths_nonCollectionNames == {"status", "health", "ping", "version", "info", "docs", "metrics"}

Paths_checkPathNamingConsistency(root) ==
    LET paths == Paths_paths(root)
        nonKebabCasePaths == SelectSeq(paths, LAMBDA q : ~Paths_kebabCase(q))
    IN  (IF (\E q \in Range(paths) : EndsWith(q, "/") /\ q # "/")
            /\ (\E q \in Range(paths) : ~EndsWith(q, "/") /\ q # "/")
         THEN <<Violation("", "", "paths", "Inconsistent use of trailing slashes in paths",
                          "warning")>>
         ELSE <<>>)
        \o
        (IF Len(nonKebabCasePaths) > 0
         THEN <<Violation(nonKebabCasePaths[1], "", "paths",
                          "Paths should follow kebab-case naming convention", "warning")>>
         ELSE <<>>)
        \o
        Flatten([i \in 1..Len(paths) |->
            IF Paths_verbInPath(paths[i]) # "" /\ ~Includes(paths[i], "/actions/")
               /\ ~EndsWith(paths[i], "/actions")
            THEN <<Violation(paths[i], "", paths[i],
                     "Path contains verb \"" \o Paths_verbInPath(paths[i])
                         \o "\" which should be avoided in resource paths", "warning")>>
            ELSE <<>>])
        \o
        Flatten([i \in 1..Len(paths) |->
            IF /\ ~StartsWith(LastSegment(paths[i]), "{")
               /\ ~Paths_pluralCollections(paths[i])
               /\ LastSegment(paths[i]) # ""
               /\ LastSegment(paths[i]) \notin Paths_nonCollectionNames
            THEN <<Violation(paths[i], "", paths[i],
                     "Collection endpoints should use plural nouns", "info")>>
            ELSE <<>>])

\* the method keys of the path items in the order pathsByMethod receives them
Paths_methodsInUse(root) ==
    Distinct(Flatten([i \in 1..Len(PathEntries(root)) |->
        Keys([kids |-> OperationEntries(PathEntries(root)[i].n)])]))

\* pathsByMethod[method]
Paths_pathsByMethod(root, method) ==
    Keys([kids |-> SelectSeq(PathEntries(root),
                             LAMBDA e : \E o \in Range(OperationEntries(e.n)) : o.k = method)])

\* potentialConflict that lets a parameter segment stand only for a parameter segment
Paths_potentialConflict_parametersOnly(path1, path2) ==
    LET segments1 == Segments(path1)
        segments2 == Segments(path2)
    IN  /\ Len(segments1) = Len(segments2)
        /\ \A k \in 1..Len(segments1) :
              \/ segments1[k] = segments2[k]
              \/ (StartsWith(segments1[k], "{") /\ StartsWith(segments2[k], "{"))

\* potentialConflict for two paths with the same number of segments
Paths_potentialConflict(path1, path2) ==
    LET segments1 == Segments(path1)
        segments2 == Segments(path2)
    IN  /\ Len(segments1) = Len(segments2)
        /\ \A k \in 1..Len(segments1) :
              ~(~StartsWith(segments1[k], "{") /\ ~StartsWith(segments2[k], "{")
                /\ segments1[k] # segments2[k])

\* the conflicts reported for one method
Paths_methodConflicts(root, method) ==
    LET methodPaths == Paths_pathsByMethod(root, method)
    IN  Flatten([i \in 1..Len(methodPaths) |-> Flatten([d \in 1..(Len(methodPaths) - i) |->
            IF Paths_potentialConflict(methodPaths[i], methodPaths[i + d])
            THEN <<Violation(methodPaths[i], "",
                     "paths[\"" \o methodPaths[i] \o "\"] and paths[\""
                         \o methodPaths[i + d] \o "\"]",
                     "Potential path conflict for " \o ToUpperCase(method)
                         \o " method between \"" \o methodPaths[i] \o "\" and \""
                         \o methodPaths[i + d] \o "\"", "warning")>>
            ELSE <<>>])])

\* the lower-cased segments of a path that are not path parameters
Paths_resourceSegments(path) ==
    LET plain == SelectSeq(Segments(path), LAMBDA segment : ~StartsWith(segment, "{"))
    IN  [i \in 1..Len(plain) |-> ToLowerCase(plain[i])]

\* the keys of resourceTypes in insertion order
Paths_resourceTypes(root) ==
    Distinct(Flatten([i \in 1..Len(Paths_paths(root)) |->
        Paths_resourceSegments(Paths_paths(root)[i])]))

\* resourceTypes.get(resourceType): a path once for every segment naming the resource
Paths_pathsWithResource(root, resourceType) ==
    Flatten([i \in 1..Len(Paths_paths(root)) |->
        LET hits == SelectSeq(Paths_resourceSegments(Paths_paths(root)[i]),
                              LAMBDA segment : segment = resourceType)
        IN  [j \in 1..Len(hits) |-> Paths_paths(root)[i]]])

Paths_topLevelAndNested(root, resourceType) ==
    LET pathsWithResource == Paths_pathsWithResource(root, resourceType)
        topLevelPaths == SelectSeq(pathsWithResource, LAMBDA q :
            Len(Segments(q)) >= 1 /\ ToLowerCase(Segments(q)[1]) = resourceType)
        nestedPaths == SelectSeq(pathsWithResource, LAMBDA q :
            Len(Segments(q)) >= 3
            /\ \E k \in 2..Len(Segments(q)) : ToLowerCase(Segments(q)[k]) = resourceType)
    IN  IF Len(topLevelPaths) > 0 /\ Len(nestedPaths) > 0
        THEN <<Violation(topLevelPaths[1], "",
                 "paths with resource \"" \o resourceType \o "\"",
                 "Resource \"" \o resourceType
                     \o "\" appears both as top-level and nested resource", "info")>>
        ELSE <<>>

Paths_checkOverlappingPaths(root) ==
    LET paths == Paths_paths(root)
        methods == Paths_methodsInUse(root)
        resourceTypes == Paths_resourceTypes(root)
    IN  (IF Cardinality(Range(paths)) # Len(paths)
         THEN <<Violation("", "", "paths", "Duplicate paths detected in the specification",
                          "error")>>
         ELSE <<>>)
        \o Flatten([i \in 1..Len(methods) |-> Paths_methodConflicts(root, methods[i])])
        \o Flatten([i \in 1..Len(resourceTypes) |->
               Paths_topLevelAndNested(root, resourceTypes[i])])

\* segments[0].toLowerCase(), the key of resourceGroups
Paths_resourceType(path) == ToLowerCase(Segments(path)[1])

\* the keys of resourceGroups in insertion order
Paths_resourceGroupKeys(root) ==
    LET grouped == SelectSeq(Paths_paths(root), LAMBDA q : Len(Segments(q)) > 0)
    IN  Distinct([i \in 1..Len(grouped) |-> Paths_resourceType(grouped[i])])

\* resourceGroups[resourceType]
Paths_resourceGroup(root, resourceType) ==
    SelectSeq(Paths_paths(root),
              LAMBDA q : Len(Segments(q)) > 0 /\ Paths_resourceType(q) = resourceType)

Paths_crudViolation(path, location, message, severity) ==
    <<Violation(path, "", location, message, severity)>>

\* the checks of the first collection path of a resource type
Paths_checkCollection(root, resourceType, collectionPath) ==
    LET pathItem == Paths_pathItem(root, collectionPath)
        location == "paths[\"" \o collectionPath \o "\"]"
    IN  IF ~Truthy(pathItem) THEN <<>>
        ELSE (IF ~Truthy(Get(pathItem, "get"))
              THEN Paths_crudViolation(collectionPath, location,
                       "Collection endpoint for \"" \o resourceType
                           \o "\" is missing GET operation for listing", "info")
              ELSE <<>>)
             \o
             (IF ~Truthy(Get(pathItem, "post"))
              THEN Paths_crudViolation(collectionPath, location,
                       "Collection endpoint for \"" \o resourceType
                           \o "\" is missing POST operation for creation", "info")
              ELSE <<>>)
             \o
             (IF Truthy(Get(pathItem, "put"))
              THEN Paths_crudViolation(collectionPath, location \o ".put",
                       "PUT method on collection endpoint \"" \o collectionPath
                           \o "\" is unusual", "warning")
              ELSE <<>>)
             \o
             (IF Truthy(Get(pathItem, "delete"))
              THEN Paths_crudViolation(collectionPath, location \o ".delete",
                       "DELETE method on collection endpoint \"" \o collectionPath
                           \o "\" should be used carefully", "info")
              ELSE <<>>)

\* idParam ? idParam.substring(1, idParam.length - 1) : 'id'
Paths_idParamName(resourcePath) ==
    LET params == SelectSeq(Segments(resourcePath), LAMBDA segment : StartsWith(segment, "{"))
    IN  IF Len(params) = 0 THEN "id" ELSE SubSeq(params[1], 2, Len(params[1]) - 1)

\* operation.parameters?.some(...): a $ref counts as the path parameter
Paths_hasPathParam(operation, idParamName) ==
    \E i \in 1..Size(Get(operation, "parameters")) :
        LET param == Get(operation, "parameters").kids[i].n
        IN  \/ HasKey(param, "$ref")
            \/ (Text(Get(param, "name")) = idParamName /\ Text(Get(param, "in")) = "path")

\* the checks of one resource path
Paths_checkResource(root, resourcePath) ==
    LET pathItem == Paths_pathItem(root, resourcePath)
        location == "paths[\"" \o resourcePath \o "\"]"
        idParamName == Paths_idParamName(resourcePath)
        operations == SelectSeq(<<Get(pathItem, "get"), Get(pathItem, "put"),
                                  Get(pathItem, "patch"), Get(pathItem, "delete")>>, Truthy)
    IN  IF ~Truthy(pathItem) THEN <<>>
        ELSE (IF ~Truthy(Get(pathItem, "get"))
              THEN Paths_crudViolation(resourcePath, location,
                       "Resource endpoint \"" \o resourcePath
                           \o "\" is missing GET operation for retrieval", "info")
              ELSE <<>>)
             \o
             (IF ~Truthy(Get(pathItem, "put")) /\ ~Truthy(Get(pathItem, "patch"))
              THEN Paths_crudViolation(resourcePath, location,
                       "Resource endpoint \"" \o resourcePath
                           \o "\" is missing PUT or PATCH operation for updates", "info")
              ELSE <<>>)
             \o
             (IF ~Truthy(Get(pathItem, "delete"))
              THEN Paths_crudViolation(resourcePath, location,
                       "Resource endpoint \"" \o resourcePath
                           \o "\" is missing DELETE operation for deletion", "info")
              ELSE <<>>)
             \o
             (IF Truthy(Get(pathItem, "post")) /\ StartsWith(LastSegment(resourcePath), "{")
              THEN Paths_crudViolation(resourcePath, location \o ".post",
                       "POST method on resource endpoint \"" \o resourcePath
                           \o "\" is unusual", "info")
              ELSE <<>>)
             \o
             Flatten([i \in 1..Len(operations) |->
                 IF ~Paths_hasPathParam(operations[i], idParamName)
                 THEN Paths_crudViolation(resourcePath, location,
                          "Path parameter \"" \o idParamName
                              \o "\" is not defined in all operations", "error")
                 ELSE <<>>])

\* the body of the loop of checkCrudConsistency for one resource type
Paths_checkResourceGroup(root, resourceType) ==
    LET group == Paths_resourceGroup(root, resourceType)
        collectionPaths == SelectSeq(group, LAMBDA q :
            Len(Segments(q)) = 1 \/ (Len(Segments(q)) > 1 /\ ~StartsWith(Segments(q)[2], "{")))
        resourcePaths == SelectSeq(group, LAMBDA q :
            Len(Segments(q)) > 1 /\ StartsWith(Segments(q)[2], "{"))
    IN  (IF Len(collectionPaths) > 0
         THEN Paths_checkCollection(root, resourceType, collectionPaths[1])
         ELSE <<>>)
        \o Flatten([i \in 1..Len(resourcePaths) |-> Paths_checkResource(root, resourcePaths[i])])

Paths_checkCrudConsistency(root) ==
    Flatten([i \in 1..Len(Paths_resourceGroupKeys(root)) |->
        Paths_checkResourceGroup(root, Paths_resourceGroupKeys(root)[i])])

\* Object.keys(HTTP_METHODS)
Paths_HTTP_METHODS == <<"get", "post", "put", "delete", "patch", "head", "options", "trace">>

\* HTTP_METHODS[method].hasBody
Paths_hasBody(method) == method \in {"post", "put", "patch"}

\* the body of the inner loop of checkHttpMethodConsistency
Paths_checkMethod(path, method, operation) ==
    LET location == "paths[\"" \o path \o "\"]." \o method
        responses == Get(operation, "responses")
        upper == ToUpperCase(method)
    IN  IF ~Truthy(operation) THEN <<>>
        ELSE (IF ~Paths_hasBody(method) /\ Truthy(Get(operation, "requestBody"))
              THEN Paths_crudViolation(path, location \o ".requestBody",
                       upper \o " method should not have a request body", "warning")
              ELSE <<>>)
             \o
             (IF Paths_hasBody(method) /\ ~Truthy(Get(operation, "requestBody"))
                 /\ method \in {"put", "post"}
              THEN Paths_crudViolation(path, location,
                       upper \o " method is missing a request body", "warning")
              ELSE <<>>)
             \o
             (IF ~Truthy(responses) THEN <<>>
              ELSE (IF ~\E code \in Range(Keys(responses)) :
                          StartsWith(code, "2") \/ code = "default"
                    THEN Paths_crudViolation(path, location \o ".responses",
                             upper \o " operation is missing success response", "warning")
                    ELSE <<>>)
                   \o
                   (IF method = "post" /\ ~Truthy(Get(responses, "201"))
                    THEN Paths_crudViolation(path, location \o ".responses",
                             "POST operation should typically return 201 Created for "
                                 \o "resource creation", "info")
                    ELSE <<>>)
                   \o
                   (IF method \in {"put", "patch"} /\ ~Truthy(Get(responses, "200"))
                       /\ ~Truthy(Get(responses, "204"))
                    THEN Paths_crudViolation(path, location \o ".responses",
                             upper \o " operation should return 200 OK or 204 No Content",
                             "info")
                    ELSE <<>>)
                   \o
                   (IF method = "delete" /\ ~Truthy(Get(responses, "204"))
                    THEN Paths_crudViolation(path, location \o ".responses",
                             "DELETE operation should typically return 204 No Content", "info")
                    ELSE <<>>))

Paths_checkHttpMethodConsistency(root) ==
    Flatten([i \in 1..Len(PathEntries(root)) |->
        Flatten([m \in 1..Len(Paths_HTTP_METHODS) |->
            Paths_checkMethod(PathEntries(root)[i].k, Paths_HTTP_METHODS[m],
                              Get(PathEntries(root)[i].n, Paths_HTTP_METHODS[m]))])])

\* [a-zA-Z0-9_]
WordChars == Letters \cup Digits \cup {"_"}

\* the end of the run of word characters that starts at position i
WordEnd(s, i) ==
    CHOOSE j \in i..(Len(s) + 1) :
        /\ \A k \in i..(j - 1) : CharAt(s, k) \in WordChars
        /\ j <= Len(s) => CharAt(s, j) \notin WordChars

RECURSIVE PathParamsFrom(_, _)
\* the names matched by NAMING_CONVENTIONS.pathParam from position i on
PathParamsFrom(path, i) ==
    IF i > Len(path) THEN <<>>
    ELSE LET j == WordEnd(path, i + 1)
         IN  IF CharAt(path, i) = "{" /\ j > i + 1 /\ j <= Len(path) /\ CharAt(path, j) = "}"
             THEN <<SubSeq(path, i + 1, j - 1)>> \o PathParamsFrom(path, j + 1)
             ELSE PathParamsFrom(path, i + 1)

\* [...path.matchAll(NAMING_CONVENTIONS.pathParam)].map(match => match[1])
Paths_pathParamNames(path) == PathParamsFrom(path, 1)

\* /^[a-z][a-zA-Z0-9]*Id$/.test(name)
Paths_camelCaseId(name) ==
    /\ Len(name) >= 3
    /\ CharAt(name, 1) \in LowerLetterSet
    /\ EndsWith(name, "Id")
    /\ \A i \in 1..Len(name) : CharAt(name, i) \in Letters \cup Digits

\* /^[a-z][a-z0-9]*_id$/.test(name)
Paths_snakeCaseId(name) ==
    /\ Len(name) >= 4
    /\ CharAt(name, 1) \in LowerLetterSet
    /\ EndsWith(name, "_id")
    /\ \A i \in 1..(Len(name) - 3) : CharAt(name, i) \in LowerLetterSet \cup Digits

\* the names of the non-reference parameters with in === 'path'
Paths_pathParamsOf(parameters) ==
    {Text(Get(parameters.kids[i].n, "name")) :
        i \in {j \in 1..Size(parameters) :
                  ~HasKey(parameters.kids[j].n, "$ref")
                  /\ Text(Get(parameters.kids[j].n, "in")) = "path"}}

\* the missing path parameters of one operation of a path item
Paths_checkOperationParameters(path, pathItem, method, op) ==
    LET definedParams == Paths_pathParamsOf(Get(op, "parameters"))
                         \cup Paths_pathParamsOf(Get(pathItem, "parameters"))
        names == Paths_pathParamNames(path)
    IN  Flatten([i \in 1..Len(names) |->
            IF names[i] \notin definedParams
            THEN Paths_crudViolation(path, "paths[\"" \o path \o "\"]." \o method,
                     "Path parameter {" \o names[i] \o "} is not defined in "
                         \o ToUpperCase(method) \o " operation", "error")
            ELSE <<>>])

Paths_checkPathParameterConsistency(root) ==
    LET paths == Paths_paths(root)
        idParams == SelectSeq(Distinct(Flatten([i \in 1..Len(paths) |->
                                  Paths_pathParamNames(paths[i])])),
                              LAMBDA name : EndsWith(ToLowerCase(name), "id"))
    IN  (IF Len(idParams) > 1 /\ (\E name \in Range(idParams) : Paths_camelCaseId(name))
            /\ (\E name \in Range(idParams) : Paths_snakeCaseId(name))
         THEN Paths_crudViolation("", "paths",
                  "Inconsistent ID parameter naming conventions", "warning")
         ELSE <<>>)
        \o
        Flatten([i \in 1..Len(PathEntries(root)) |->
            LET e == PathEntries(root)[i]
                ops == OperationEntries(e.n)
            IN  Flatten([j \in 1..Len(ops) |->
                    Paths_checkOperationParameters(e.k, e.n, ops[j].k, ops[j].n)])])

\* what makes PathsOperationsRule.evaluate throw a TypeError: op.parameters on a null
\* operation of a path with parameters, and resourceGroups[key].push for a key that
\* Object.prototype already has
Paths_throws(root) ==
    \/ ReadsNullPathItem(root)
    \/ \E o \in Range(VisitedOperations(root)) :
          IsNullish(o.op) /\ Len(Paths_pathParamNames(o.path)) > 0
    \/ \E q \in Range(Paths_paths(root)) :
          Len(Segments(q)) > 0 /\ Paths_resourceType(q) \in InheritedKeys

\* (violations / totalPaths) * 0.7, * 0.2 and * 0.1 of PathsOperationsRule.evaluate
Paths_penalty(violations, severity, totalPaths, tenths) ==
    Mul(DivInt(FromInt(CountSeverity(violations, severity)), totalPaths), Tenths(tenths))

\* this.weight * (1 - Math.min(1, errorPenalty + warningPenalty + infoPenalty))
Paths_weighted(violations, totalPaths, weight) ==
    MulInt(weight,
           Sub(FromInt(1),
               MathMin(FromInt(1),
                       Add(Add(Paths_penalty(violations, "error", totalPaths, 7),
                               Paths_penalty(violations, "warning", totalPaths, 2)),
                           Paths_penalty(violations, "info", totalPaths, 1)))))

\* the cap at 70% of the weight when there are errors
Paths_capped(violations, score, weight) ==
    IF CountSeverity(violations, "error") > 0 /\ LessThan(MulInt(weight, Tenths(7)), score)
    THEN MulInt(weight, Tenths(7))
    ELSE score

\* the score of PathsOperationsRule.evaluate
Paths_score(violations, totalPaths, weight) ==
    Max(0, MathRound(Paths_capped(violations, Paths_weighted(violations, totalPaths, weight),
                                  weight)))

\* PathsOperationsRule.evaluate
Paths_evaluate(root) ==
    IF ~Truthy(Get(root, "paths")) \/ Size(Get(root, "paths")) = 0
    THEN RuleResult(0, WeightPathsOperations,
             <<Violation("", "", "paths", "No paths defined in the API specification",
                         "error")>>)
    ELSE IF Paths_throws(root) THEN Thrown
    ELSE LET violations == Paths_checkPathNamingConsistency(root)
                           \o Paths_checkOverlappingPaths(root)
                           \o Paths_checkCrudConsistency(root)
                           \o Paths_checkHttpMethodConsistency(root)
                           \o Paths_checkPathParameterConsistency(root)
         IN  RuleResult(Paths_score(violations, Size(Get(root, "paths")),
                                    WeightPathsOperations),
                        WeightPathsOperations, violations)

-----------------------------------------------------------------------------
(* SchemaTypesRule *)

\* the deepest nesting of validateSchema calls the stack is modelled to hold; a
\* schema that refers to itself nests without end and ends in a RangeError
MaxDepth == 6

Schema_PRIMITIVE_TYPES == {"string", "number", "integer", "boolean", "array", "object", "null"}
Schema_STRING_FORMATS ==
    {"date", "date-time", "password", "byte", "binary", "email", "uuid", "uri", "hostname",
     "ipv4", "ipv6"}
Schema_NUMBER_FORMATS == {"float", "double", "int32", "int64"}

\* what a validateSchema call leaves behind: the violations pushed, the paths added
\* to schemasWithViolations, and whether it threw
SchemaOutcome(violations, withViolations, threw) ==
    [v |-> violations, w |-> withViolations, threw |-> threw]
SchemaClean == SchemaOutcome(<<>>, {}, FALSE)
SchemaThrew == SchemaOutcome(<<>>, {}, TRUE)

\* consecutive outcomes
SchemaOutcomes(outcomes) ==
    SchemaOutcome(Flatten([i \in 1..Len(outcomes) |-> outcomes[i].v]),
                  UNION {outcomes[i].w : i \in 1..Len(outcomes)},
                  \E i \in 1..Len(outcomes) : outcomes[i].threw)

\* a violation at originalPath; counted marks the schema in schemasWithViolations
Schema_violation(originalPath, location, message, severity, counted) ==
    SchemaOutcome(<<Violation(Split(originalPath, ".")[1], "", location, message, severity)>>,
                  IF counted THEN {originalPath} ELSE {}, FALSE)

\* isSchemaDefined(schema)
Schema_isSchemaDefined(schema) ==
    \/ Truthy(Get(schema, "type")) \/ Truthy(Get(schema, "allOf"))
    \/ Truthy(Get(schema, "oneOf")) \/ Truthy(Get(schema, "anyOf"))

\* hasComposition
Schema_hasComposition(schema) ==
    Truthy(Get(schema, "allOf")) \/ Truthy(Get(schema, "oneOf")) \/ Truthy(Get(schema, "anyOf"))

\* typeof x === 'object', which holds for null too
TypeofObject(n) == n.t \in {"obj", "arr", "null"}

\* what Check 3.3 pushes: an info that does not mark the schema
Schema_requiredRecommendation(originalPath) ==
    Schema_violation(originalPath, originalPath,
        "Object schema has properties defined but none are marked as required", "info", FALSE)

RECURSIVE Schema_validateSchema(_, _, _, _)
\* validateSchema(schema, path, spec, violations, schemasWithViolations) at the given
\* nesting depth; '$ref' in schema throws when schema is not an object
Schema_validateSchema(schema, originalPath, root, depth) ==
    IF depth > MaxDepth \/ ~IsObject(schema) THEN SchemaThrew
    ELSE
    LET resolvedSchema == resolveNode(schema, root)
        type == Text(Get(resolvedSchema, "type"))
        format == Text(Get(resolvedSchema, "format"))
        properties == Get(resolvedSchema, "properties")
        additionalProperties == Get(resolvedSchema, "additionalProperties")
        enum == Get(resolvedSchema, "enum")
        hasComposition == Schema_hasComposition(resolvedSchema)
        composed(keyword) ==
            IF Truthy(Get(resolvedSchema, keyword))
            THEN SchemaOutcomes([i \in 1..Size(Get(resolvedSchema, keyword)) |->
                     Schema_validateSchema(Get(resolvedSchema, keyword).kids[i].n,
                         originalPath \o "." \o keyword \o "[" \o ToString(i - 1) \o "]",
                         root, depth + 1)])
            ELSE SchemaClean
    IN  IF ~TruthyValue(resolvedSchema)
        THEN Schema_violation(originalPath, originalPath,
                 "Unresolved schema reference: " \o Text(Get(schema, "$ref")), "error", TRUE)
        ELSE SchemaOutcomes(<<
            \* Check 1 and Check 2
            IF ~Schema_isSchemaDefined(resolvedSchema)
            THEN Schema_violation(originalPath, originalPath,
                     "Schema lacks a type definition or composition keyword (allOf, oneOf, anyOf)",
                     "error", TRUE)
            ELSE IF Truthy(Get(resolvedSchema, "type")) /\ type \notin Schema_PRIMITIVE_TYPES
            THEN Schema_violation(originalPath, originalPath,
                     "Schema uses invalid type: '" \o type \o "'", "error", TRUE)
            ELSE SchemaClean,
            \* Check 3
            IF type = "object" /\ ~Truthy(properties) /\ additionalProperties # JTrue
               /\ ~TypeofObject(additionalProperties) /\ ~hasComposition
            THEN Schema_violation(originalPath, originalPath,
                     "Object schema has no properties or additionalProperties defined and is "
                         \o "not using composition", "warning", TRUE)
            ELSE SchemaClean,
            \* Check 3.1
            IF type = "object" /\ Truthy(properties)
            THEN SchemaOutcomes([i \in 1..Size(properties) |->
                     Schema_validateSchema(properties.kids[i].n,
                         originalPath \o ".properties." \o properties.kids[i].k,
                         root, depth + 1)])
            ELSE SchemaClean,
            \* Check 3.2
            IF type = "object" /\ TypeofObject(additionalProperties)
            THEN Schema_validateSchema(additionalProperties,
                     originalPath \o ".additionalProperties", root, depth + 1)
            ELSE SchemaClean,
            \* Check 3.3
            IF type = "object" /\ Truthy(properties) /\ Size(properties) > 0
               /\ (~Truthy(Get(resolvedSchema, "required"))
                   \/ Size(Get(resolvedSchema, "required")) = 0)
            THEN Schema_requiredRecommendation(originalPath)
            ELSE SchemaClean,
            \* Check 4
            IF type # "array" THEN SchemaClean
            ELSE IF ~Truthy(Get(resolvedSchema, "items"))
            THEN Schema_violation(originalPath, originalPath,
                     "Array schema is missing items definition", "error", TRUE)
            ELSE Schema_validateSchema(Get(resolvedSchema, "items"),
                     originalPath \o ".items", root, depth + 1),
            \* Check 5
            IF type = "string" /\ Truthy(Get(resolvedSchema, "format"))
               /\ format \notin Schema_STRING_FORMATS
            THEN Schema_violation(originalPath, originalPath,
                     "String uses non-standard format: '" \o format \o "'", "info", FALSE)
            ELSE SchemaClean,
            \* Check 6
            IF type \in {"number", "integer"} /\ Truthy(Get(resolvedSchema, "format"))
               /\ format \notin Schema_NUMBER_FORMATS
            THEN Schema_violation(originalPath, originalPath,
                     "Number uses non-standard format: '" \o format \o "'", "info", FALSE)
            ELSE SchemaClean,
            \* Check 7
            IF type = "object" /\ additionalProperties = JTrue
               /\ (~Truthy(properties) \/ Size(properties) = 0) /\ ~hasComposition
            THEN Schema_violation(originalPath, originalPath,
                     "Schema defines a completely free-form object with no defined properties "
                         \o "or composition", "warning", TRUE)
            ELSE SchemaClean,
            \* Check 8
            composed("allOf"), composed("oneOf"), composed("anyOf"),
            \* Check 9
            IF Truthy(enum) /\ Size(enum) = 0
            THEN Schema_violation(originalPath, originalPath, "Schema has empty enum array",
                                  "error", TRUE)
            ELSE SchemaClean,
            IF Truthy(enum) /\ (\E i \in 1..Size(enum) : enum.kids[i].n.t = "null")
               /\ Get(resolvedSchema, "nullable") # JTrue
               /\ ~(Get(resolvedSchema, "type").t = "arr"
                    /\ \E i \in 1..Size(Get(resolvedSchema, "type")) :
                          Get(resolvedSchema, "type").kids[i].n = Str("null"))
            THEN Schema_violation(originalPath, originalPath,
                     "Enum includes null but schema is not marked as nullable or does not "
                         \o "include \"null\" in type array", "warning", TRUE)
            ELSE SchemaClean,
            \* Check 10
            IF ~Truthy(Get(resolvedSchema, "description"))
            THEN Schema_violation(originalPath, originalPath, "Schema is missing a description",
                                  "info", FALSE)
            ELSE SchemaClean,
            IF type = "object" /\ Truthy(properties)
            THEN SchemaOutcomes([i \in 1..Size(properties) |->
                     LET resolvedPropSchema == resolveNode(properties.kids[i].n, root)
                     IN  IF TruthyValue(resolvedPropSchema)
                            /\ ~Truthy(Get(resolvedPropSchema, "description"))
                         THEN Schema_violation(originalPath,
                                  originalPath \o ".properties." \o properties.kids[i].k,
                                  "Schema property '" \o properties.kids[i].k
                                      \o "' is missing a description", "info", FALSE)
                         ELSE SchemaClean])
            ELSE SchemaClean,
            \* Check 11
            IF ~TruthyValue(Get(resolvedSchema, "example"))
            THEN Schema_violation(originalPath, originalPath,
                     "Schema is missing examples (example or examples)",
                     IF type \in {"object", "array"} THEN "warning" ELSE "info", FALSE)
            ELSE SchemaClean >>)

\* a schema the rule counts in totalSchemas and validates at the given path
SchemaAt(schema, path) == [schema |-> schema, path |-> path]

\* the schemas of the media types of a content map
Schema_contentSchemas(content, prefix) ==
    IF ~Truthy(content) THEN <<>>
    ELSE Flatten([i \in 1..Size(content) |->
            IF Truthy(Get(content.kids[i].n, "schema"))
            THEN <<SchemaAt(Get(content.kids[i].n, "schema"),
                            prefix \o ".content." \o content.kids[i].k \o ".schema")>>
            ELSE <<>>])

\* the schemas of a headers map; a header reference is resolved first
Schema_headerSchemas(headers, prefix, root) ==
    IF ~Truthy(headers) THEN <<>>
    ELSE Flatten([i \in 1..Size(headers) |->
            LET resolvedHeader == resolveNode(headers.kids[i].n, root)
            IN  IF Truthy(Get(resolvedHeader, "schema"))
                THEN <<SchemaAt(Get(resolvedHeader, "schema"),
                                prefix \o ".headers." \o headers.kids[i].k \o ".schema")>>
                ELSE <<>>])

\* the schema of a parameter or reference to one, at the path built from name
Schema_parameterSchemas(parameter, prefix, index, named, root) ==
    LET resolvedParam == resolveNode(parameter, root)
        paramName == IF named THEN index
                     ELSE IF Truthy(Get(resolvedParam, "name"))
                     THEN Text(Get(resolvedParam, "name")) ELSE "index" \o index
    IN  IF Truthy(Get(resolvedParam, "schema"))
        THEN <<SchemaAt(Get(resolvedParam, "schema"),
                        prefix \o ".parameters." \o paramName \o ".schema")>>
        ELSE <<>>

\* the schemas checkComponentsForSchemas validates, in order
Schema_componentSchemas(root) ==
    LET components == Get(root, "components")
        schemas == Get(components, "schemas")
        parameters == Get(components, "parameters")
        requestBodies == Get(components, "requestBodies")
        responses == Get(components, "responses")
        headers == Get(components, "headers")
    IN  (IF Truthy(schemas)
         THEN [i \in 1..Size(schemas) |->
                  SchemaAt(schemas.kids[i].n, "components.schemas." \o schemas.kids[i].k)]
         ELSE <<>>)
        \o
        (IF Truthy(parameters)
         THEN Flatten([i \in 1..Size(parameters) |->
                  Schema_parameterSchemas(parameters.kids[i].n, "components",
                                          parameters.kids[i].k, TRUE, root)])
         ELSE <<>>)
        \o
        (IF Truthy(requestBodies)
         THEN Flatten([i \in 1..Size(requestBodies) |->
                  Schema_contentSchemas(
                      Get(resolveNode(requestBodies.kids[i].n, root), "content"),
                      "components.requestBodies." \o requestBodies.kids[i].k)])
         ELSE <<>>)
        \o
        (IF Truthy(responses)
         THEN Flatten([i \in 1..Size(responses) |->
                  LET resolvedResponse == resolveNode(responses.kids[i].n, root)
                      prefix == "components.responses." \o responses.kids[i].k
                  IN  Schema_contentSchemas(Get(resolvedResponse, "content"), prefix)
                      \o Schema_headerSchemas(Get(resolvedResponse, "headers"), prefix, root)])
         ELSE <<>>)
        \o Schema_headerSchemas(headers, "components", root)

\* the schemas checkPathsForSchemas validates for one operation, in order
Schema_operationSchemas(o, root) ==
    LET prefix == o.path \o "." \o o.method
        responses == Get(o.op, "responses")
        parameters == Get(o.op, "parameters")
    IN  (IF Truthy(Get(o.op, "requestBody"))
         THEN Schema_contentSchemas(
                  Get(resolveNode(Get(o.op, "requestBody"), root), "content"),
                  prefix \o ".requestBody")
         ELSE <<>>)
        \o
        (IF Truthy(responses)
         THEN Flatten([i \in 1..Size(responses) |->
                  LET resolvedResponse == resolveNode(responses.kids[i].n, root)
                      at == prefix \o ".responses." \o responses.kids[i].k
                  IN  Schema_contentSchemas(Get(resolvedResponse, "content"), at)
                      \o Schema_headerSchemas(Get(resolvedResponse, "headers"), at, root)])
         ELSE <<>>)
        \o
        (IF Truthy(parameters)
         THEN Flatten([i \in 1..Size(parameters) |->
                  Schema_parameterSchemas(parameters.kids[i].n, prefix, ToString(i - 1),
                                          FALSE, root)])
         ELSE <<>>)

\* the schemas checkPathsForSchemas validates, in order
Schema_pathSchemas(root) ==
    LET ops == VisitedOperations(root)
    IN  Flatten([i \in 1..Len(ops) |-> Schema_operationSchemas(ops[i], root)])

\* every schema the rule validates: totalSchemas is their number
Schema_allSchemas(root) == Schema_componentSchemas(root) \o Schema_pathSchemas(root)

\* the violations and schemasWithViolations after both checks
Schema_validated(root) ==
    LET all == Schema_allSchemas(root)
    IN  SchemaOutcomes([i \in 1..Len(all) |->
            Schema_validateSchema(all[i].schema, all[i].path, root, 0)])

\* the reads of checkPathsForSchemas that throw: operation.requestBody on a null
\* operation, '$ref' in response on a null response
Schema_throws(root) ==
    \/ ReadsNullPathItem(root)
    \/ \E o \in Range(VisitedOperations(root)) :
          \/ IsNullish(o.op)
          \/ /\ Truthy(Get(o.op, "responses"))
             /\ \E r \in Range(Entries(Get(o.op, "responses"))) : ~IsObject(r.n)

\* (violationPercentage + weightedViolationScore) / 2 of SchemaTypesRule.evaluate
Schema_combinedImpact(violations, withViolations, totalSchemas) ==
    DivInt(Add(DivInt(FromInt(withViolations), totalSchemas),
               DivInt(WeightedViolations(violations), totalSchemas)), 2)

\* Math.round(this.weight * (1 - combinedImpact))
Schema_rounded(violations, withViolations, totalSchemas, weight) ==
    MathRound(MulInt(weight, Sub(FromInt(1),
                                 Schema_combinedImpact(violations, withViolations, totalSchemas))))

\* the score of SchemaTypesRule.evaluate
Schema_score(violations, withViolations, total, weight) ==
    Max(0, ErrorCapped(violations,
                       Schema_rounded(violations, withViolations, Max(1, total), weight),
                       weight))

\* evaluate with schemasWithViolations holding an entry for every error and warning
Schema_evaluate_perViolation(root) ==
    IF Schema_throws(root) THEN Thrown
    ELSE LET done == Schema_validated(root)
         IN  IF done.threw THEN Thrown
             ELSE RuleResult(Schema_score(done.v,
                                 CountSeverity(done.v, "error") + CountSeverity(done.v, "warning"),
                                 Len(Schema_allSchemas(root)), WeightSchemaTypes),
                             WeightSchemaTypes, done.v)

\* SchemaTypesRule.evaluate; what validateSchema throws leaves evaluate uncaught
Schema_evaluate(root) ==
    IF Schema_throws(root) THEN Thrown
    ELSE LET done == Schema_validated(root)
         IN  IF done.threw THEN Thrown
             ELSE RuleResult(Schema_score(done.v, Cardinality(done.w),
                                          Len(Schema_allSchemas(root)), WeightSchemaTypes),
                             WeightSchemaTypes, done.v)

-----------------------------------------------------------------------------
(* The documents handed to the Judge.  The parser only parses (SwaggerParser.parse), *)
(* so documents with missing sections, null members and dangling references reach   *)
(* the rules.  Keys are listed in the order Object.keys returns them: status codes  *)
(* ascending, then the other keys as written.                                       *)

\* the most path items a document holds
MaxPaths == 2

\* the most times Judge.evaluate is called again on the same document
MaxRuns == 1

Ref(ref) == Obj(<<KV("$ref", Str(ref))>>)

\* the members that are present: a member paired with Undefined is left out
Members(members) == Obj(SelectSeq(members, LAMBDA m : m.n # Undefined))

JsonContent(schema, example) ==
    Obj(<<KV("application/json", Members(<<KV("schema", schema), KV("example", example)>>))>>)

Response(description, content) ==
    Members(<<KV("description", Str(description)), KV("content", content)>>)

PetSchema ==
    Obj(<<KV("type", Str("object")),
          KV("description", Str("A pet in the store")),
          KV("required", Arr(<<Str("name")>>)),
          KV("properties", Obj(<<KV("name", Obj(<<KV("type", Str("string")),
                                                  KV("description", Str("The name")),
                                                  KV("example", Str("Rex"))>>))>>)),
          KV("example", Obj(<<KV("name", Str("Rex"))>>))>>)

\* an object schema with a property that refers to a schema that does not exist
OwnerSchema ==
    Obj(<<KV("type", Str("object")),
          KV("properties", Obj(<<KV("pet", Ref("#/components/schemas/Ghost"))>>))>>)

\* the same property in a schema that declares no type
LooseSchema ==
    Obj(<<KV("properties", Obj(<<KV("pet", Ref("#/components/schemas/Ghost"))>>))>>)

\* a schema that refers to itself
NodeSchema ==
    Obj(<<KV("type", Str("object")),
          KV("properties", Obj(<<KV("next", Ref("#/components/schemas/Node"))>>))>>)

ApiKeyScheme == Obj(<<KV("type", Str("apiKey")), KV("name", Str("key")), KV("in", Str("header"))>>)

\* spec.components: absent, empty, or one of a few sections
ComponentsPool ==
    { Undefined,
      Obj(<<>>),
      Obj(<<KV("schemas", Obj(<<KV("Pet", PetSchema)>>)),
            KV("securitySchemes", Obj(<<KV("apiKey", ApiKeyScheme)>>))>>),
      Obj(<<KV("schemas", Obj(<<KV("Owner", OwnerSchema)>>))>>),
      Obj(<<KV("schemas", Obj(<<KV("Loose", LooseSchema)>>))>>),
      Obj(<<KV("schemas", Obj(<<KV("Node", NodeSchema)>>))>>) }

\* spec.info without a description, contact or license, and with a version that is
\* not a semantic version
BareInfo == Obj(<<KV("title", Str("Pets")), KV("version", Str("v1"))>>)

FullInfo ==
    Obj(<<KV("title", Str("Pets")), KV("version", Str("1.0.0")),
          KV("description", Str("Pet store API")),
          KV("contact", Obj(<<KV("name", Str("Ann"))>>)),
          KV("license", Obj(<<KV("name", Str("MIT"))>>))>>)

\* spec.security naming the scheme of that name
SecuredBy(scheme) == Arr(<<Obj(<<KV(scheme, Arr(<<>>))>>)>>)

PetServers ==
    Arr(<<Obj(<<KV("url", Str("https://api.example.com")), KV("description", Str("Production"))>>)>>)

PetTags == Arr(<<Obj(<<KV("name", Str("pets")), KV("description", Str("Pets"))>>)>>)

\* spec.info, spec.security, spec.servers and spec.tags: all absent; a bare info with
\* a security requirement on a scheme that is not defined; all present; only info
FramePool ==
    { [info |-> Undefined, security |-> Undefined, servers |-> Undefined, tags |-> Undefined],
      [info |-> BareInfo, security |-> SecuredBy("ghost"), servers |-> Undefined, tags |-> Undefined],
      [info |-> FullInfo, security |-> SecuredBy("apiKey"), servers |-> PetServers, tags |-> PetTags],
      [info |-> FullInfo, security |-> Undefined, servers |-> Undefined, tags |-> Undefined] }

ListPets ==
    Obj(<<KV("operationId", Str("listPets")),
          KV("summary", Str("List all pets")),
          KV("tags", Arr(<<Str("pets")>>)),
          KV("responses", Obj(<<
              KV("200", Response("A list of pets",
                                 JsonContent(Ref("#/components/schemas/Pet"), Obj(<<>>)))),
              KV("400", Response("Bad request", Undefined)),
              KV("500", Response("Server error", Undefined)),
              KV("default", Response("Unexpected error", Undefined))>>))>>)

CreatePet ==
    Obj(<<KV("operationId", Str("createPet")),
          KV("requestBody", Obj(<<KV("content",
              JsonContent(Obj(<<KV("type", Str("string"))>>), Undefined))>>)),
          KV("responses", Obj(<<KV("201", Response("Created", Undefined))>>))>>)

PetIdParameter ==
    Obj(<<KV("name", Str("petId")), KV("in", Str("path")),
          KV("description", Str("The id of the pet")),
          KV("schema", Obj(<<KV("type", Str("string"))>>))>>)

GetPet ==
    Obj(<<KV("operationId", Str("getPet")),
          KV("description", Str("Fetch one pet")),
          KV("parameters", Arr(<<PetIdParameter>>)),
          KV("responses", Obj(<<KV("200", Response("The pet", Undefined)),
                                KV("404", Response("No such pet", Undefined))>>))>>)

\* an operation whose parameter, request body, response and response header are
\* references to components that do not exist
DanglingPut ==
    Obj(<<KV("parameters", Arr(<<Ref("#/components/parameters/ghost")>>)),
          KV("requestBody", Ref("#/components/requestBodies/ghost")),
          KV("responses", Obj(<<
              KV("200", Ref("#/components/responses/ghost")),
              KV("404", Members(<<KV("description", Str("No such pet")),
                  KV("headers", Obj(<<KV("X-Trace", Ref("#/components/headers/ghost"))>>))>>))>>))>>)

\* an operation without responses, whose only parameter is a dangling reference
ListUsers ==
    Obj(<<KV("summary", Str("List users")),
          KV("parameters", Arr(<<Ref("#/components/parameters/ghost")>>))>>)

\* the path items of the documents: well-formed ones, a null path item, an operation
\* without responses, a null operation, a null response, and an ill-named path
PathPool ==
    << KV("/pets", Obj(<<KV("get", ListPets), KV("post", CreatePet)>>)),
       KV("/pets/{petId}", Obj(<<KV("get", GetPet)>>)),
       KV("/pets/{petId}", Obj(<<KV("put", DanglingPut)>>)),
       KV("/orders", JNull),
       KV("/users", Obj(<<KV("get", ListUsers)>>)),
       KV("/status", Obj(<<KV("get", JNull)>>)),
       KV("/items", Obj(<<KV("get", Obj(<<KV("responses", Obj(<<KV("200", JNull)>>))>>))>>)),
       KV("/getUsers/", Obj(<<KV("delete", Obj(<<KV("security", Arr(<<>>)),
            KV("responses", Obj(<<KV("204", Response("", Undefined))>>))>>))>>)) >>

\* the entries of PathPool at the chosen positions, in pool order
PathsAt(chosen) ==
    Obj(SelectSeq([i \in 1..Len(PathPool) |-> IF i \in chosen THEN PathPool[i] ELSE KV("", Undefined)],
                  LAMBDA e : e.n # Undefined))

\* spec.paths: absent, empty, or up to MaxPaths path items with distinct names
PathsPool ==
    { Undefined }
    \cup { PathsAt(chosen) : chosen \in
             { c \in SUBSET (1..Len(PathPool)) :
                 /\ Cardinality(c) <= MaxPaths
                 /\ \A i, j \in c : i # j => PathPool[i].k # PathPool[j].k } }

Document(frame, components, paths) ==
    Members(<<KV("openapi", Str("3.0.0")), KV("info", frame.info), KV("servers", frame.servers),
              KV("tags", frame.tags), KV("paths", paths), KV("components", components),
              KV("security", frame.security)>>)

Documents ==
    { Document(frame, components, paths) :
        frame \in FramePool, components \in ComponentsPool, paths \in PathsPool }

-----------------------------------------------------------------------------
(* Judge *)

\* getRules(): the names of the seven rules in the order the Judge holds them
getRules ==
    <<"Schema & Types", "Description & Documentation", "Paths & Operations",
      "Response Codes", "Examples & Samples", "Security", "Miscellaneous">>

\* rule.weight with the Miscellaneous rule weighted like the Schema rule
RuleWeight_uneven(rule) ==
    CASE rule = "Schema & Types" -> WeightSchemaTypes
      [] rule = "Description & Documentation" -> WeightDescriptionDocs
      [] rule = "Paths & Operations" -> WeightPathsOperations
      [] rule = "Response Codes" -> WeightResponseCodes
      [] rule = "Examples & Samples" -> WeightExamples
      [] rule = "Security" -> WeightSecurity
      [] rule = "Miscellaneous" -> WeightSchemaTypes

\* rule.weight
RuleWeight(rule) ==
    CASE rule = "Schema & Types" -> WeightSchemaTypes
      [] rule = "Description & Documentation" -> WeightDescriptionDocs
      [] rule = "Paths & Operations" -> WeightPathsOperations
      [] rule = "Response Codes" -> WeightResponseCodes
      [] rule = "Examples & Samples" -> WeightExamples
      [] rule = "Security" -> WeightSecurity
      [] rule = "Miscellaneous" -> WeightMiscellaneous

\* rule.evaluate(spec) of rules that lean on their predecessors: a rule invoked out
\* of its place in getRules() finds nothing to report
RuleEvaluate_positional(rule, root) ==
    IF Len(evaluated) < Len(getRules) /\ getRules[Len(evaluated) + 1] # rule
    THEN RuleResult(RuleWeight(rule), RuleWeight(rule), <<>>)
    ELSE CASE rule = "Schema & Types" -> Schema_evaluate(root)
           [] rule = "Description & Documentation" -> Docs_evaluate(root)
           [] rule = "Paths & Operations" -> Paths_evaluate(root)
           [] rule = "Response Codes" -> Codes_evaluate(root)
           [] rule = "Examples & Samples" -> Examples_evaluate(root)
           [] rule = "Security" -> Security_evaluate(root)
           [] rule = "Miscellaneous" -> Misc_evaluate(root)

\* rule.evaluate(spec)
RuleEvaluate(rule, root) ==
    CASE rule = "Schema & Types" -> Schema_evaluate(root)
      [] rule = "Description & Documentation" -> Docs_evaluate(root)
      [] rule = "Paths & Operations" -> Paths_evaluate(root)
      [] rule = "Response Codes" -> Codes_evaluate(root)
      [] rule = "Examples & Samples" -> Examples_evaluate(root)
      [] rule = "Security" -> Security_evaluate(root)
      [] rule = "Miscellaneous" -> Misc_evaluate(root)

\* a rule that consumes what it has visited: the last member of the document is gone
SpecAfterEvaluate_consuming(root) ==
    [root EXCEPT !.kids = SubSeq(root.kids, 1, Len(root.kids) - 1)]

\* the specification object after rule.evaluate(spec) has run on it: no rule
\* assigns to, or calls a mutating method on, any part of its argument
SpecAfterEvaluate(root) == root

\* calculateGrade with the thresholds compared by > instead of >=
calculateGrade_exclusive(score) ==
    IF score > 90 THEN "S"
    ELSE IF score > 80 THEN "A"
    ELSE IF score > 70 THEN "B"
    ELSE IF score > 60 THEN "C"
    ELSE IF score > 50 THEN "D"
    ELSE "F"

\* calculateGrade(score)
calculateGrade(score) ==
    IF score >= 90 THEN "S"
    ELSE IF score >= 80 THEN "A"
    ELSE IF score >= 70 THEN "B"
    ELSE IF score >= 60 THEN "C"
    ELSE IF score >= 50 THEN "D"
    ELSE "F"

\* no helper or rule is called on its own
NoCall == [fn |-> "none"]
NoOutcome == [returned |-> FALSE]

\* what a call returned
Outcome(value) == [returned |-> TRUE, value |-> value]

\* before Judge.evaluate has returned there is no ScoreCard
NoCard ==
    [returned |-> FALSE, overallScore |-> 0, grade |-> "", categoryScores |-> <<>>,
     violations |-> <<>>, ruleResults |-> <<>>]

\* a ScoreCard whose violations list keeps the info violations
ScoreCard_unfiltered(results) ==
    LET totalScore == SumSeq([i \in 1..Len(results) |-> results[i].result.score])
        maxPossibleScore == SumSeq([i \in 1..Len(results) |-> results[i].result.maxScore])
        overallScore == RoundRatioTimes(totalScore, maxPossibleScore, 100)
    IN  [returned |-> TRUE,
         overallScore |-> overallScore,
         grade |-> calculateGrade(overallScore),
         categoryScores |-> [i \in 1..Len(results) |->
             [name |-> results[i].rule,
              score |-> results[i].result.score,
              maxScore |-> results[i].result.maxScore,
              percentage |-> RoundRatioTimes(results[i].result.score, results[i].result.maxScore, 100),
              ruleResult |-> results[i]]],
         violations |-> Flatten([i \in 1..Len(results) |-> results[i].result.violations]),
         ruleResults |-> results]

\* a ScoreCard whose violations list is kept between calls and appended to
ScoreCard_accumulating(results) ==
    LET totalScore == SumSeq([i \in 1..Len(results) |-> results[i].result.score])
        maxPossibleScore == SumSeq([i \in 1..Len(results) |-> results[i].result.maxScore])
        overallScore == RoundRatioTimes(totalScore, maxPossibleScore, 100)
        earlier == IF Len(history) > 0 THEN history[Len(history)].violations ELSE <<>>
    IN  [returned |-> TRUE,
         overallScore |-> overallScore,
         grade |-> calculateGrade(overallScore),
         categoryScores |-> [i \in 1..Len(results) |->
             [name |-> results[i].rule,
              score |-> results[i].result.score,
              maxScore |-> results[i].result.maxScore,
              percentage |-> RoundRatioTimes(results[i].result.score, results[i].result.maxScore, 100),
              ruleResult |-> results[i]]],
         violations |-> earlier \o
             SelectSeq(Flatten([i \in 1..Len(results) |-> results[i].result.violations]),
                       LAMBDA v : v.severity # "info"),
         ruleResults |-> results]

\* the ScoreCard Judge.evaluate builds from the results of rules.map
ScoreCard(results) ==
    LET totalScore == SumSeq([i \in 1..Len(results) |-> results[i].result.score])
        maxPossibleScore == SumSeq([i \in 1..Len(results) |-> results[i].result.maxScore])
        overallScore == RoundRatioTimes(totalScore, maxPossibleScore, 100)
    IN  [returned |-> TRUE,
         overallScore |-> overallScore,
         grade |-> calculateGrade(overallScore),
         categoryScores |-> [i \in 1..Len(results) |->
             [name |-> results[i].rule,
              score |-> results[i].result.score,
              maxScore |-> results[i].result.maxScore,
              percentage |-> RoundRatioTimes(results[i].result.score, results[i].result.maxScore, 100),
              ruleResult |-> results[i]]],
         violations |-> SelectSeq(Flatten([i \in 1..Len(results) |-> results[i].result.violations]),
                                  LAMBDA v : v.severity # "info"),
         ruleResults |-> results]

Init ==
    /\ spec \in Documents
    /\ pc = "rules"
    /\ evaluated = <<>>
    /\ ruleResults = <<>>
    /\ scoreCard = NoCard
    /\ history = <<>>
    /\ call = NoCall
    /\ outcome = NoOutcome

\* what Judge.evaluate does with the outcome of rule.evaluate(spec): an exception
\* leaves Judge.evaluate at once (there is no try/catch); a result is collected, and
\* after the last rule the ScoreCard is built and returned
Collect(rule, result) ==
    /\ spec' = SpecAfterEvaluate(spec)
    /\ history' = history
    /\ UNCHANGED <<call, outcome>>
    /\ IF result.threw
       THEN /\ pc' = "thrown"
            /\ UNCHANGED <<evaluated, ruleResults, scoreCard>>
       ELSE /\ evaluated' = Append(evaluated, rule)
            /\ ruleResults' = Append(ruleResults, [rule |-> rule, result |-> result])
            /\ IF Len(ruleResults) + 1 = Len(getRules)
               THEN pc' = "done" /\ scoreCard' = ScoreCard(ruleResults')
               ELSE pc' = "rules" /\ scoreCard' = scoreCard

\* one step of rules.map in Judge.evaluate: the named rule evaluates the document
Invoke(rule) == Collect(rule, RuleEvaluate(rule, spec))

\* Judge.evaluate invokes the rules in the order of getRules()
EvaluateRule ==
    /\ pc = "rules"
    /\ Invoke(getRules[Len(evaluated) + 1])

\* the caller hands the same document to Judge.evaluate once more
EvaluateAgain ==
    /\ pc \in {"done", "thrown"}
    /\ Len(history) < MaxRuns
    /\ history' = Append(history, scoreCard)
    /\ pc' = "rules"
    /\ evaluated' = <<>>
    /\ ruleResults' = <<>>
    /\ scoreCard' = NoCard
    /\ spec' = spec
    /\ UNCHANGED <<call, outcome>>

Next == EvaluateRule \/ EvaluateAgain

Spec == Init /\ [][Next]_vars

-----------------------------------------------------------------------------
(* The rules invoked in any order: a caller that holds the seven evaluators and *)
(* invokes each once on the same document, in an order of its own choosing.      *)

\* a document with every section and one path item, and the same document without info
AnyOrderDocuments ==
    { Document(frame, components, PathsAt({1})) :
        frame \in {f \in FramePool : f.security # SecuredBy("ghost") /\ f.servers = Undefined},
        components \in {c \in ComponentsPool : HasKey(c, "securitySchemes")} }

InitAnyOrder ==
    /\ spec \in AnyOrderDocuments
    /\ pc = "rules"
    /\ evaluated = <<>>
    /\ ruleResults = <<>>
    /\ scoreCard = NoCard
    /\ history = <<>>
    /\ call = NoCall
    /\ outcome = NoOutcome

\* any rule that has not been invoked yet is invoked next
EvaluateAnyRule ==
    /\ pc = "rules"
    /\ \E rule \in Range(getRules) \ Range(evaluated) : Invoke(rule)

NextAnyOrder == EvaluateAnyRule

SpecAnyOrder == InitAnyOrder /\ [][NextAnyOrder]_vars

-----------------------------------------------------------------------------
(* The Judge over rules that return given results: Judge.evaluate only reads the  *)
(* score, maxScore and violations of what each rule returns, so its aggregation   *)
(* is exercised with seven rules of the configured names and weights whose        *)
(* results are chosen freely.                                                     *)

\* the scores a given rule may return: none, half, all but one point, all
GivenScores(rule) == {0, RuleWeight(rule) \div 2, RuleWeight(rule) - 1, RuleWeight(rule)}

\* the violations a rule returns with a given score: none with the full score, an info
\* and a warning with a partial score, an error besides with no score
GivenViolations(rule, score) ==
    IF score = RuleWeight(rule) THEN <<>>
    ELSE <<Violation("/pets", "get", rule, "informational finding", "info"),
           Violation("/pets", "get", rule, "questionable finding", "warning")>>
         \o (IF score = 0
             THEN <<Violation("/pets", "", rule, "faulty finding", "error")>>
             ELSE <<>>)

\* the results of seven rules that return the given scores
GivenResults(scores) ==
    [i \in 1..Len(getRules) |->
        [rule |-> getRules[i],
         result |-> RuleResult(scores[i], RuleWeight(getRules[i]),
                               GivenViolations(getRules[i], scores[i]))]]

\* rules.map has returned the results of the seven rules
InitGiven ==
    /\ spec = Document([info |-> FullInfo, security |-> Undefined, servers |-> Undefined,
                        tags |-> Undefined], Undefined, Undefined)
    /\ pc = "rules"
    /\ evaluated = getRules
    /\ ruleResults \in { GivenResults(<<s1, s2, s3, s4, s5, s6, s7>>) :
                           s1 \in GivenScores(getRules[1]), s2 \in GivenScores(getRules[2]),
                           s3 \in GivenScores(getRules[3]), s4 \in GivenScores(getRules[4]),
                           s5 \in GivenScores(getRules[5]), s6 \in GivenScores(getRules[6]),
                           s7 \in GivenScores(getRules[7]) }
    /\ scoreCard = NoCard
    /\ history = <<>>
    /\ call = NoCall
    /\ outcome = NoOutcome

\* the rest of Judge.evaluate: the ScoreCard is built from the results and returned
Aggregate ==
    /\ pc = "rules"
    /\ pc' = "done"
    /\ scoreCard' = ScoreCard(ruleResults)
    /\ UNCHANGED <<spec, evaluated, ruleResults, history, call, outcome>>

NextGiven == Aggregate

SpecGiven == InitGiven /\ [][NextGiven]_vars

-----------------------------------------------------------------------------
(* calculateScore called on its own, with violations of every mix of severities. *)

MaxErrors == 3
MaxWarnings == 8
MaxInfos == 2
MaxItems == 8

\* n violations of one severity
ViolationsOf(severity, n) ==
    [i \in 1..n |-> Violation("/pets", "get", "operation", "finding", severity)]

\* the weights the rules are configured with
Weights == {RuleWeight(getRules[i]) : i \in 1..Len(getRules)}

\* the Judge of InitScore is idle
Idle ==
    /\ spec = Document([info |-> FullInfo, security |-> Undefined, servers |-> Undefined,
                        tags |-> Undefined], Undefined, Undefined)
    /\ pc = "idle"
    /\ evaluated = <<>>
    /\ ruleResults = <<>>
    /\ scoreCard = NoCard
    /\ history = <<>>
    /\ outcome = NoOutcome

InitScore ==
    /\ Idle
    /\ call \in { [fn |-> "calculateScore",
                   violations |-> ViolationsOf("warning", warnings) \o ViolationsOf("info", infos)
                                  \o ViolationsOf("error", errors),
                   totalItems |-> totalItems,
                   weight |-> weight] :
                  errors \in 0..MaxErrors, warnings \in 0..MaxWarnings, infos \in 0..MaxInfos,
                  totalItems \in 0..MaxItems, weight \in Weights }

\* calculateScore(violations, totalItems, weight) returns
CallCalculateScore ==
    /\ call.fn = "calculateScore"
    /\ ~outcome.returned
    /\ outcome' = Outcome(calculateScore(call.violations, call.totalItems, call.weight))
    /\ UNCHANGED <<spec, pc, evaluated, ruleResults, scoreCard, history, call>>

NextScore == CallCalculateScore

SpecScore == InitScore /\ [][NextScore]_vars

-----------------------------------------------------------------------------
(* The reference resolvers called on their own: the shared resolveReference of the *)
(* helper functions and the private copies of the rules, on pointers that are      *)
(* present, dangling, escaped, external, or that run through values that are not   *)
(* objects.                                                                        *)

JFalse == [t |-> "bool", v |-> "false", kids |-> <<>>]

\* schemas whose names need escaping in a pointer, and one with a false member
ResolverComponents ==
    Obj(<<KV("schemas", Obj(<<KV("Pet", PetSchema),
                              KV("a~b", Obj(<<KV("type", Str("string"))>>)),
                              KV("~1", Obj(<<KV("type", Str("integer"))>>)),
                              KV("Flag", Obj(<<KV("type", Str("boolean")),
                                               KV("description", Str("")),
                                               KV("nullable", JFalse)>>))>>))>>)

ResolverDocuments ==
    { Document([info |-> FullInfo, security |-> Undefined, servers |-> PetServers,
                tags |-> Undefined], components, PathsAt({2, 5})) :
        components \in {Undefined, Obj(<<>>), ResolverComponents} }

Pointers ==
    { "#/components/schemas/Pet",
      "#/components/schemas/Pet/properties/name",
      "#/components/schemas/Ghost",
      "#/components/schemas/Flag/nullable",
      "#/components/schemas/Flag/description",
      "#/components/schemas/constructor",
      "#/components/schemas/Pet/required/0",
      "#/components/schemas/Pet/required/length",
      "#/info/title/length",
      "#/info/title/0",
      "#/info/title/name",
      "#/servers/0",
      "#/",
      "#components/schemas/Pet",
      "components/schemas/Pet",
      "https://example.com/schemas.json#/Pet",
      "#/paths/~1users/get",
      "#/paths/~1pets~1{petId}/get",
      "#/paths/~1orders",
      "#/components/schemas/a~0b",
      "#/components/schemas/~01" }

Resolvers ==
    {"resolveReference", "ResponseCodesRule.resolveReference", "ExamplesSamplesRule.resolveReference"}

InitResolve ==
    /\ Idle
    /\ call \in { [fn |-> fn, ref |-> ref, root |-> root] :
                    fn \in Resolvers, ref \in Pointers, root \in ResolverDocuments }

\* resolveReference(ref, spec) of the helper functions returns
CallResolveReference ==
    /\ call.fn = "resolveReference"
    /\ ~outcome.returned
    /\ outcome' = Outcome(resolveReference(call.ref, call.root))
    /\ UNCHANGED <<spec, pc, evaluated, ruleResults, scoreCard, history, call>>

\* the private resolveReference of ResponseCodesRule returns
CallCodesResolveReference ==
    /\ call.fn = "ResponseCodesRule.resolveReference"
    /\ ~outcome.returned
    /\ outcome' = Outcome(Codes_resolveReference(call.ref, call.root))
    /\ UNCHANGED <<spec, pc, evaluated, ruleResults, scoreCard, history, call>>

\* the private resolveReference of ExamplesSamplesRule returns
CallExamplesResolveReference ==
    /\ call.fn = "ExamplesSamplesRule.resolveReference"
    /\ ~outcome.returned
    /\ outcome' = Outcome(Examples_resolveReference(call.ref, call.root))
    /\ UNCHANGED <<spec, pc, evaluated, ruleResults, scoreCard, history, call>>

NextResolve ==
    \/ CallResolveReference
    \/ CallCodesResolveReference
    \/ CallExamplesResolveReference

SpecResolve == InitResolve /\ [][NextResolve]_vars

-----------------------------------------------------------------------------
(* SchemaTypesRule.evaluate called on its own, on documents with one component   *)
(* schema: an object schema with one or two properties, with and without a list  *)
(* of required properties, descriptions and examples.                            *)

\* a property schema of the given type
PropertySchema(type, text, example, described, exampled) ==
    Members(<<KV("type", Str(type)),
              KV("description", IF described THEN Str(text) ELSE Undefined),
              KV("example", IF exampled THEN example ELSE Undefined)>>)

\* the object schema User of a document
UserSchema(idType, withName, required, described, exampled, propsDescribed, propsExampled) ==
    Members(<<KV("type", Str("object")),
              KV("description", IF described THEN Str("A user") ELSE Undefined),
              KV("properties",
                 Members(<<KV("id", PropertySchema(idType, "User ID", Num(42),
                                                   propsDescribed, propsExampled)),
                           KV("name", IF withName
                                      THEN PropertySchema("string", "User name", Str("Ann"),
                                                          propsDescribed, propsExampled)
                                      ELSE Undefined)>>)),
              KV("required", required),
              KV("example", IF exampled THEN Obj(<<KV("id", Num(42))>>) ELSE Undefined)>>)

\* the document of the rule's unit tests around one component schema
SchemaDocument(schema) ==
    Obj(<<KV("openapi", Str("3.0.0")),
          KV("info", Obj(<<KV("title", Str("Test API")), KV("version", Str("1.0.0"))>>)),
          KV("paths", Obj(<<>>)),
          KV("components", Obj(<<KV("schemas", Obj(<<KV("User", schema)>>))>>))>>)

SchemaDocuments ==
    { SchemaDocument(UserSchema(idType, withName, required, described, exampled,
                                propsDescribed, propsExampled)) :
        idType \in {"integer", "text"}, withName \in BOOLEAN,
        required \in {Undefined, Arr(<<>>), Arr(<<Str("id")>>)},
        described \in BOOLEAN, exampled \in BOOLEAN,
        propsDescribed \in BOOLEAN, propsExampled \in BOOLEAN }

\* a string schema Name: well-formed, of an invalid type, with an empty enum as well,
\* or without a description
NameSchemas ==
    { Undefined,
      Obj(<<KV("type", Str("string")), KV("description", Str("A name")),
            KV("example", Str("Ann"))>>),
      Obj(<<KV("type", Str("text")), KV("description", Str("A name")),
            KV("example", Str("Ann"))>>),
      Obj(<<KV("type", Str("text")), KV("description", Str("A name")),
            KV("example", Str("Ann")), KV("enum", Arr(<<>>))>>),
      Obj(<<KV("type", Str("string")), KV("example", Str("Ann"))>>) }

\* an array schema Tags: well-formed, without items, with an empty enum as well, and
\* without description and example on top of that
TagsSchemas ==
    { Undefined,
      Obj(<<KV("type", Str("array")), KV("description", Str("Tags")),
            KV("items", Obj(<<KV("type", Str("string")), KV("description", Str("A tag")),
                              KV("example", Str("new"))>>)),
            KV("example", Arr(<<Str("new")>>))>>),
      Obj(<<KV("type", Str("array")), KV("description", Str("Tags")),
            KV("example", Arr(<<Str("new")>>))>>),
      Obj(<<KV("type", Str("array")), KV("description", Str("Tags")),
            KV("example", Arr(<<Str("new")>>)), KV("enum", Arr(<<>>))>>),
      Obj(<<KV("type", Str("array")), KV("enum", Arr(<<>>))>>) }

\* documents with up to two component schemas that fail no, one or several checks
SeveralChecksDocuments ==
    { Obj(<<KV("openapi", Str("3.0.0")),
            KV("info", Obj(<<KV("title", Str("Test API")), KV("version", Str("1.0.0"))>>)),
            KV("paths", Obj(<<>>)),
            KV("components",
               Obj(<<KV("schemas", Members(<<KV("Name", name), KV("Tags", tags)>>))>>))>>) :
        name \in NameSchemas, tags \in TagsSchemas }

SchemaRef(name) == Ref("#/components/schemas/" \o name)

ObjectWith(name, schema) ==
    Obj(<<KV("type", Str("object")), KV("properties", Obj(<<KV(name, schema)>>))>>)

\* component schema sections whose references lead back to a schema: through a
\* property, an additional property, array items or a composition keyword, through a
\* property of a schema without a type, a not keyword, or reference objects only
CyclicSchemas ==
    { Obj(<<KV("Node", ObjectWith("next", SchemaRef("Node")))>>),
      Obj(<<KV("Author", ObjectWith("books", Obj(<<KV("type", Str("array")),
                                                  KV("items", SchemaRef("Book"))>>))),
            KV("Book", ObjectWith("author", SchemaRef("Author")))>>),
      Obj(<<KV("Dictionary", Obj(<<KV("type", Str("object")),
                                   KV("additionalProperties", SchemaRef("Dictionary"))>>))>>),
      Obj(<<KV("List", Obj(<<KV("type", Str("array")), KV("items", SchemaRef("List"))>>))>>) }
    \cup { Obj(<<KV("Extended", Obj(<<KV(keyword, Arr(<<SchemaRef("Extended")>>))>>))>>) :
             keyword \in {"allOf", "oneOf", "anyOf"} }
    \cup { Obj(<<KV("Node", Obj(<<KV("properties",
                                     Obj(<<KV("next", SchemaRef("Node"))>>))>>))>>),
           Obj(<<KV("Word", Obj(<<KV("type", Str("string")), KV("not", SchemaRef("Word"))>>))>>),
           Obj(<<KV("Alias", SchemaRef("Alias"))>>),
           Obj(<<KV("First", SchemaRef("Second")), KV("Second", SchemaRef("First"))>>) }

\* component schema sections whose references never lead back: a chain and a schema
\* referred to twice
AcyclicSchemas ==
    { Obj(<<KV("Order", ObjectWith("item", SchemaRef("Item"))),
            KV("Item", ObjectWith("label", SchemaRef("Label"))),
            KV("Label", Obj(<<KV("type", Str("string"))>>))>>),
      Obj(<<KV("Pair", Obj(<<KV("type", Str("object")),
                             KV("properties", Obj(<<KV("left", SchemaRef("Label")),
                                                    KV("right", SchemaRef("Label"))>>))>>)),
            KV("Label", Obj(<<KV("type", Str("string"))>>))>>) }

\* the schema of the 200 response of GET /things: none, or a reference to the first
\* component schema
ReferringDocuments ==
    { Obj(<<KV("openapi", Str("3.0.0")),
            KV("info", Obj(<<KV("title", Str("Test API")), KV("version", Str("1.0.0"))>>)),
            KV("paths",
               IF referred
               THEN Obj(<<KV("/things", Obj(<<KV("get", Obj(<<KV("responses",
                        Obj(<<KV("200", Response("OK",
                              JsonContent(SchemaRef(schemas.kids[1].k), Undefined)))>>))>>))>>))>>)
               ELSE Obj(<<>>)),
            KV("components", Obj(<<KV("schemas", schemas)>>))>>) :
        schemas \in CyclicSchemas \cup AcyclicSchemas, referred \in BOOLEAN }

InitSchema ==
    /\ Idle
    /\ call \in { [fn |-> "SchemaTypesRule.evaluate", root |-> root] :
                    root \in SchemaDocuments \cup SeveralChecksDocuments
                             \cup ReferringDocuments }

\* SchemaTypesRule.evaluate(spec) returns or throws
CallSchemaEvaluate ==
    /\ call.fn = "SchemaTypesRule.evaluate"
    /\ ~outcome.returned
    /\ outcome' = Outcome(Schema_evaluate(call.root))
    /\ UNCHANGED <<spec, pc, evaluated, ruleResults, scoreCard, history, call>>

NextSchema == CallSchemaEvaluate

SpecSchema == InitSchema /\ [][NextSchema]_vars

-----------------------------------------------------------------------------
(* SecurityRule.evaluate called on its own, on documents that vary what the rule    *)
(* reads: the operations of one path and their security, the global security, and   *)
(* the defined security schemes.                                                     *)

\* spec.security and operation.security: absent, empty, naming the defined scheme,
\* naming a scheme that is not defined
SecurityPool == {Undefined, Arr(<<>>), SecuredBy("apiKey"), SecuredBy("ghost")}

SecurityOperation(security) ==
    Members(<<KV("security", security),
              KV("responses", Obj(<<KV("200", Response("OK", Undefined))>>))>>)

\* spec.paths: absent, empty, a null path item, or one path item with a get operation
\* (possibly null), a post operation, or both
SecurityPaths ==
    { Undefined, Obj(<<>>), Obj(<<KV("/test", JNull)>>) }
    \cup { Obj(<<KV("/test", Members(<<KV("get", get), KV("post", post)>>))>>) :
             get \in {Undefined, JNull} \cup {SecurityOperation(s) : s \in SecurityPool},
             post \in {Undefined} \cup {SecurityOperation(s) : s \in SecurityPool} }

\* spec.components: absent, empty, with no scheme, with one scheme
SecurityComponents ==
    { Undefined, Obj(<<>>), Obj(<<KV("securitySchemes", Obj(<<>>))>>),
      Obj(<<KV("securitySchemes", Obj(<<KV("apiKey", ApiKeyScheme)>>))>>) }

SecurityDocuments ==
    { Members(<<KV("openapi", Str("3.0.0")),
                KV("info", Obj(<<KV("title", Str("Test API")), KV("version", Str("1.0.0"))>>)),
                KV("paths", paths), KV("components", components), KV("security", security)>>) :
        paths \in SecurityPaths, components \in SecurityComponents,
        security \in SecurityPool \ {SecuredBy("ghost")} }

InitSecurity ==
    /\ Idle
    /\ call \in { [fn |-> "SecurityRule.evaluate", root |-> root] : root \in SecurityDocuments }

\* SecurityRule.evaluate(spec) returns or throws
CallSecurityEvaluate ==
    /\ call.fn = "SecurityRule.evaluate"
    /\ ~outcome.returned
    /\ outcome' = Outcome(Security_evaluate(call.root))
    /\ UNCHANGED <<spec, pc, evaluated, ruleResults, scoreCard, history, call>>

NextSecurity == CallSecurityEvaluate

SpecSecurity == InitSecurity /\ [][NextSecurity]_vars

-----------------------------------------------------------------------------
(* PathsOperationsRule.evaluate called on its own, on documents whose paths share   *)
(* segments, parameter segments and methods, and declare their path parameters on   *)
(* the operation, on the path item, by reference, or not at all.                    *)

\* a parameter object of an operation or a path item
PathParameter(name) ==
    Obj(<<KV("name", Str(name)), KV("in", Str("path")), KV("required", JTrue),
          KV("schema", Obj(<<KV("type", Str("string"))>>))>>)

\* an operation with the given parameters (Undefined: none)
PathsOperation(parameters) ==
    Members(<<KV("parameters", parameters),
              KV("responses", Obj(<<KV("200", Response("OK", Undefined))>>))>>)

\* the path items a path of the documents may have; Undefined: the path is absent
PathItemChoices ==
    << {Undefined,
        Obj(<<KV("get", PathsOperation(Undefined))>>),
        Obj(<<KV("get", PathsOperation(Arr(<<PathParameter("userId")>>)))>>),
        Obj(<<KV("parameters", Arr(<<PathParameter("userId")>>)),
              KV("get", PathsOperation(Undefined))>>),
        Obj(<<KV("get", PathsOperation(Arr(<<Ref("#/components/parameters/userId")>>)))>>),
        Obj(<<KV("get", PathsOperation(Arr(<<PathParameter("userId")>>))),
              KV("post", PathsOperation(Undefined))>>)},
       {Undefined,
        Obj(<<KV("get", PathsOperation(Arr(<<PathParameter("username")>>)))>>),
        Obj(<<KV("post", PathsOperation(Arr(<<PathParameter("username")>>)))>>)},
       {Undefined, Obj(<<KV("get", PathsOperation(Undefined))>>)},
       {Undefined,
        Obj(<<KV("get", PathsOperation(Undefined))>>),
        Obj(<<KV("get", PathsOperation(Undefined)), KV("post", PathsOperation(Undefined))>>)},
       {Undefined, Obj(<<KV("get", PathsOperation(Undefined))>>)},
       {Undefined,
        Obj(<<KV("get", PathsOperation(Arr(<<PathParameter("orderId")>>)))>>),
        Obj(<<KV("delete", PathsOperation(Undefined))>>)} >>

PathNames ==
    <<"/users/{userId}", "/users/{username}", "/users/me", "/users", "/users/",
      "/orders/{orderId}">>

PathsDocuments ==
    { Obj(<<KV("openapi", Str("3.0.0")),
            KV("info", Obj(<<KV("title", Str("Test API")), KV("version", Str("1.0.0"))>>)),
            KV("paths", Members(<<KV(PathNames[1], i1), KV(PathNames[2], i2),
                                  KV(PathNames[3], i3), KV(PathNames[4], i4),
                                  KV(PathNames[5], i5), KV(PathNames[6], i6)>>)),
            KV("components",
               Obj(<<KV("parameters", Obj(<<KV("userId", PathParameter("userId"))>>))>>))>>) :
        i1 \in PathItemChoices[1], i2 \in PathItemChoices[2], i3 \in PathItemChoices[3],
        i4 \in PathItemChoices[4], i5 \in PathItemChoices[5], i6 \in PathItemChoices[6] }

InitPaths ==
    /\ Idle
    /\ call \in { [fn |-> "PathsOperationsRule.evaluate", root |-> root] :
                    root \in PathsDocuments }

\* PathsOperationsRule.evaluate(spec) returns or throws
CallPathsEvaluate ==
    /\ call.fn = "PathsOperationsRule.evaluate"
    /\ ~outcome.returned
    /\ outcome' = Outcome(Paths_evaluate(call.root))
    /\ UNCHANGED <<spec, pc, evaluated, ruleResults, scoreCard, history, call>>

NextPaths == CallPathsEvaluate

SpecPaths == InitPaths /\ [][NextPaths]_vars

-----------------------------------------------------------------------------
(* ExamplesSamplesRule.evaluate called on its own, on documents with one operation  *)
(* whose request body, 201 response, 400 response and parameters come with and      *)
(* without examples.                                                                *)

\* a media type object with an example, with an empty examples map, or with neither
MediaTypeChoices ==
    { Obj(<<KV("schema", Obj(<<KV("type", Str("object"))>>))>>),
      Obj(<<KV("schema", Obj(<<KV("type", Str("object"))>>)),
            KV("example", Obj(<<KV("name", Str("Rex"))>>))>>),
      Obj(<<KV("schema", Obj(<<KV("type", Str("object"))>>)), KV("examples", Obj(<<>>))>>) }

\* content: absent, one media type, or two media types of which the second has an
\* example
ContentChoices ==
    { Undefined }
    \cup { Obj(<<KV("application/json", m)>>) : m \in MediaTypeChoices }
    \cup { Obj(<<KV("application/json", m),
                 KV("application/xml", Obj(<<KV("example", Str("<pet/>"))>>))>>) :
             m \in MediaTypeChoices }

QueryParameter(name, example) ==
    Members(<<KV("name", Str(name)), KV("in", Str("query")), KV("example", example)>>)

\* operation.parameters: absent, empty, one or two parameters
ParametersChoices ==
    { Undefined, Arr(<<>>),
      Arr(<<QueryParameter("limit", Undefined)>>),
      Arr(<<QueryParameter("limit", Num(10))>>),
      Arr(<<QueryParameter("limit", Num(10)), QueryParameter("offset", Undefined)>>) }

ExamplesOperation(requestContent, createdContent, withBadRequest, parameters) ==
    Members(<<KV("parameters", parameters),
              KV("requestBody", IF requestContent = Undefined THEN Undefined
                                ELSE Obj(<<KV("content", requestContent)>>)),
              KV("responses",
                 Members(<<KV("201", Response("Created", createdContent)),
                           KV("400", IF withBadRequest
                                     THEN Response("Bad request",
                                              Obj(<<KV("application/json", Obj(<<>>))>>))
                                     ELSE Undefined)>>))>>)

\* documents with one operation under post or get; no paths; empty paths
ExamplesDocuments ==
    { Members(<<KV("openapi", Str("3.0.0")),
                KV("info", Obj(<<KV("title", Str("Test API")), KV("version", Str("1.0.0"))>>)),
                KV("paths", paths)>>) :
        paths \in { Undefined, Obj(<<>>) }
                  \cup { Obj(<<KV("/pets", Obj(<<KV(method,
                             ExamplesOperation(requestContent, createdContent,
                                               withBadRequest, parameters))>>))>>) :
                           method \in {"post", "get"},
                           requestContent \in ContentChoices,
                           createdContent \in ContentChoices,
                           withBadRequest \in BOOLEAN,
                           parameters \in ParametersChoices } }

InitExamples ==
    /\ Idle
    /\ call \in { [fn |-> "ExamplesSamplesRule.evaluate", root |-> root] :
                    root \in ExamplesDocuments }

\* ExamplesSamplesRule.evaluate(spec) returns or throws
CallExamplesEvaluate ==
    /\ call.fn = "ExamplesSamplesRule.evaluate"
    /\ ~outcome.returned
    /\ outcome' = Outcome(Examples_evaluate(call.root))
    /\ UNCHANGED <<spec, pc, evaluated, ruleResults, scoreCard, history, call>>

NextExamples == CallExamplesEvaluate

SpecExamples == InitExamples /\ [][NextExamples]_vars

-----------------------------------------------------------------------------
(* MiscellaneousBestPracticesRule.evaluate called on its own, on documents with up   *)
(* to MaxMiscPaths paths, with and without components, and with and without a $ref  *)
(* to a component.                                                                  *)

\* more paths than MIN_PATHS_FOR_COMPONENT_EXPECTATION
MaxMiscPaths == 6

MiscPathName(i) == IF i = 1 THEN "/users" ELSE "/users/v" \o ToString(i)

\* components: absent, empty, with an empty schemas section, with one schema
MiscComponents ==
    { Undefined, Obj(<<>>), Obj(<<KV("schemas", Obj(<<>>))>>),
      Obj(<<KV("schemas", Obj(<<KV("User", Obj(<<KV("type", Str("object"))>>))>>))>>) }

\* the schema of the 200 response of the first path: none, in line, or a reference
MiscResponseSchemas ==
    { Undefined, Obj(<<KV("type", Str("string"))>>),
      Obj(<<KV("$ref", Str("#/components/schemas/User"))>>) }

MiscOperation(schema) ==
    Obj(<<KV("responses",
             Obj(<<KV("200", Response("OK",
                     IF schema = Undefined THEN Undefined
                     ELSE Obj(<<KV("application/json",
                                   Obj(<<KV("schema", schema)>>))>>)))>>))>>)

MiscPaths(n, schema) ==
    Obj([i \in 1..n |->
            KV(MiscPathName(i),
               Obj(<<KV("get", MiscOperation(IF i = 1 THEN schema ELSE Undefined))>>))])

MiscDocuments ==
    { Members(<<KV("openapi", Str("3.0.0")),
                KV("info", Members(<<KV("title", Str("Test API")), KV("version", version)>>)),
                KV("servers", servers),
                KV("components", components),
                KV("paths", paths)>>) :
        version \in { Undefined, Str("1.0.0") },
        servers \in { Undefined, Arr(<<Obj(<<KV("url", Str("https://api.example.com/v1"))>>)>>) },
        components \in MiscComponents,
        paths \in { Undefined }
                  \cup { MiscPaths(n, schema) : n \in 0..MaxMiscPaths,
                                                schema \in MiscResponseSchemas } }

InitMisc ==
    /\ Idle
    /\ call \in { [fn |-> "MiscellaneousBestPracticesRule.evaluate", root |-> root] :
                    root \in MiscDocuments }

\* MiscellaneousBestPracticesRule.evaluate(spec) returns or throws
CallMiscEvaluate ==
    /\ call.fn = "MiscellaneousBestPracticesRule.evaluate"
    /\ ~outcome.returned
    /\ outcome' = Outcome(Misc_evaluate(call.root))
    /\ UNCHANGED <<spec, pc, evaluated, ruleResults, scoreCard, history, call>>

NextMisc == CallMiscEvaluate

SpecMisc == InitMisc /\ [][NextMisc]_vars

-----------------------------------------------------------------------------
(* Properties *)

\* the rule has returned a result in the current call of Judge.evaluate
Evaluated(rule) == \E i \in 1..Len(ruleResults) : ruleResults[i].rule = rule

\* the result the rule returned in the current call
ResultOf(rule) ==
    ruleResults[CHOOSE i \in 1..Len(ruleResults) : ruleResults[i].rule = rule].result

\* Judge.evaluate has just been entered for the first time
AtEntry == pc = "rules" /\ evaluated = <<>> /\ history = <<>>

\* 0 <= score <= weight, and maxScore is the weight
WithinWeight(rule, result) ==
    /\ result.score \in 0..RuleWeight(rule)
    /\ result.maxScore = RuleWeight(rule)

\* C1: for every one of the seven rules and every document, the score of the RuleResult
\* that evaluate returns lies between 0 and the rule's weight: this holds of every
\* result the Judge has collected, and of every rule on every document as handed in
C1_ScoreWithinWeight ==
    /\ \A i \in 1..Len(ruleResults) : WithinWeight(ruleResults[i].rule, ruleResults[i].result)
    /\ AtEntry =>
          \A rule \in Range(getRules) :
              LET result == RuleEvaluate(rule, spec)
              IN  ~result.threw => WithinWeight(rule, result)

\* a completed evaluation in which one rule scored 0 with more weighted violations than
\* items, and another scored strictly between 0 and its weight
C1_Witness ==
    /\ pc = "done"
    /\ \E i \in 1..Len(ruleResults) :
          /\ ruleResults[i].result.score = 0
          /\ CountSeverity(ruleResults[i].result.violations, "error") > 1
    /\ \E i \in 1..Len(ruleResults) :
          /\ ruleResults[i].result.score > 0
          /\ ruleResults[i].result.score < ruleResults[i].result.maxScore

\* the component schemas of the document
ComponentSchemas(root) == Entries(Get(Get(root, "components"), "schemas"))

\* the schema has a property that is a reference to itself
RefersToItself(name, schema) ==
    \E p \in Range(Entries(Get(schema, "properties"))) :
        Text(Get(p.n, "$ref")) = "#/components/schemas/" \o name

\* an operation object has a parameter, a request body or a response that is a $ref
\* which resolves to nothing
HasDanglingRef(operation, root) ==
    \E node \in Range(Entries(Get(operation, "parameters")))
                \cup Range(Entries(Get(operation, "responses")))
                \cup {KV("requestBody", Get(operation, "requestBody"))} :
        HasKey(node.n, "$ref") /\ ~TruthyValue(WalkParts(Split(Substring(Text(Get(node.n, "$ref")), 2), "/"), root))

\* the document is well-formed but for the anticipated defects: info is there, every
\* operation and every response is an object, and no component schema refers to itself.
\* References that resolve to nothing, null path items, operations without responses
\* and missing components, servers, tags and security are all allowed
OnlyAnticipatedDefects(root) ==
    /\ IsObject(Get(root, "info"))
    /\ \A e \in Range(Entries(Get(root, "paths"))) :
          \A o \in Range(OperationEntries(e.n)) :
              /\ IsObject(o.n)
              /\ \A r \in Range(Entries(Get(o.n, "responses"))) : IsObject(r.n)
    /\ \A s \in Range(ComponentSchemas(root)) : ~RefersToItself(s.k, s.n)

\* C2: on a parsed document whose defects are unresolvable references, missing optional
\* sections, null path items and operations without responses, no rule's evaluate
\* throws
C2_AnticipatedDefectsNeverThrow ==
    OnlyAnticipatedDefects(spec) =>
        /\ pc # "thrown"
        /\ AtEntry => \A rule \in Range(getRules) : ~RuleEvaluate(rule, spec).threw

\* all seven rules have returned on a document without components, servers, tags and
\* security that holds a null path item and an operation without responses whose
\* parameter is a dangling reference
C2_Witness ==
    /\ pc = "done"
    /\ OnlyAnticipatedDefects(spec)
    /\ \A section \in {"components", "servers", "tags", "security"} : ~HasKey(spec, section)
    /\ \E e \in Range(Entries(Get(spec, "paths"))) : e.n = JNull
    /\ \E o \in Range(VisitedOperations(spec)) :
          ~HasKey(o.op, "responses") /\ HasDanglingRef(o.op, spec)

\* C3 as stated: when a rule's evaluate throws, Judge.evaluate still returns a ScoreCard
\* with a result for each of the seven rules.  The code has no try/catch: the call
\* ends with the exception and no ScoreCard
C3_FaultIsolated ==
    pc \in {"done", "thrown"} =>
        scoreCard.returned /\ Len(scoreCard.categoryScores) = Len(getRules)

\* the rules that resolve $refs of parameters, request bodies and responses
RefResolvingRules ==
    {"Schema & Types", "Description & Documentation", "Response Codes", "Examples & Samples"}

\* C4 as stated: every rule that resolves $refs reports a reference that resolves to
\* nothing as an error-severity violation.  DescriptionDocsRule, ExamplesSamplesRule
\* and the parameter, request body and response walks of SchemaTypesRule skip it
C4_UnresolvedRefReported ==
    \A i \in 1..Len(ruleResults) :
        /\ ruleResults[i].rule \in RefResolvingRules
        /\ \E o \in Range(VisitedOperations(spec)) : HasDanglingRef(o.op, spec)
        => \E v \in Range(ruleResults[i].result.violations) :
              v.severity = "error" /\ Includes(v.message, "reference")

\* the $refs of the schema's properties that name a component schema that is not there
DanglingPropertyRefs(schema, root) ==
    { Text(Get(p.n, "$ref")) :
        p \in { q \in Range(Entries(Get(schema, "properties"))) :
                  /\ StartsWith(Text(Get(q.n, "$ref")), "#/components/schemas/")
                  /\ \A s \in Range(ComponentSchemas(root)) :
                        Text(Get(q.n, "$ref")) # "#/components/schemas/" \o s.k } }

\* the Schema rule has reported the reference as unresolved
ReportedUnresolved(ref) ==
    \E v \in Range(ResultOf("Schema & Types").violations) :
        v.severity = "error" /\ v.message = "Unresolved schema reference: " \o ref

ZeroPathsZeroComponents(root) ==
    Size(Get(root, "paths")) = 0 /\ Size(Get(root, "components")) = 0

\* the single error violation of the "no paths" state
IsNoPathsError(violations) ==
    /\ Len(violations) = 1
    /\ violations[1].severity = "error"
    /\ violations[1].message = "No paths defined in the API specification"

\* C6 as stated, for documents that have their info: with zero paths and zero
\* components every rule returns its full weight or a single error violation, and
\* Response Codes and Paths & Operations return exactly the 'No paths defined' error
\* and not the full weight.  ResponseCodesRule returns its full weight with that error
C6_ZeroPathsFullWeightOrSingleError ==
    ZeroPathsZeroComponents(spec) /\ IsObject(Get(spec, "info")) =>
        /\ pc # "thrown"
        /\ \A i \in 1..Len(ruleResults) :
              LET result == ruleResults[i].result
              IN  /\ \/ result.score = result.maxScore
                     \/ Len(result.violations) = 1 /\ result.violations[1].severity = "error"
                  /\ ruleResults[i].rule \in {"Response Codes", "Paths & Operations"} =>
                        IsNoPathsError(result.violations) /\ result.score < result.maxScore

InOrderResults(root) ==
    [i \in 1..Len(getRules) |-> [rule |-> getRules[i], result |-> RuleEvaluate(getRules[i], root)]]

C10_OverallScoreIsSumOfScores ==
    /\ SumSeq([i \in 1..Len(getRules) |-> RuleWeight(getRules[i])]) = 100
    /\ scoreCard.returned =>
          /\ scoreCard.overallScore \in 0..100
          /\ SumSeq([i \in 1..Len(ruleResults) |-> ruleResults[i].result.maxScore])
                = SumSeq([i \in 1..Len(getRules) |-> RuleWeight(getRules[i])])
          /\ scoreCard.overallScore
                = SumSeq([i \in 1..Len(ruleResults) |-> ruleResults[i].result.score])

\* a ScoreCard whose overallScore is neither 0 nor 100, from rules that lost points
C10_Witness ==
    /\ scoreCard.returned
    /\ scoreCard.overallScore \in 1..99
    /\ \E i \in 1..Len(scoreCard.categoryScores) :
          scoreCard.categoryScores[i].score < scoreCard.categoryScores[i].maxScore
    /\ \E i \in 1..Len(scoreCard.categoryScores) :
          scoreCard.categoryScores[i].score = scoreCard.categoryScores[i].maxScore


\* the grade the thresholds give a score
GradeOf(score) ==
    CASE score >= 90 -> "S"
      [] score >= 80 /\ score < 90 -> "A"
      [] score >= 70 /\ score < 80 -> "B"
      [] score >= 60 /\ score < 70 -> "C"
      [] score >= 50 /\ score < 60 -> "D"
      [] score < 50 -> "F"

\* every rule returned its weight as score and no violations
AllRulesPerfect ==
    \A i \in 1..Len(ruleResults) :
        /\ ruleResults[i].result.score = RuleWeight(ruleResults[i].rule)
        /\ ruleResults[i].result.violations = <<>>

\* C11: the grade of a returned ScoreCard is the one the thresholds >=90 S, >=80 A,
\* >=70 B, >=60 C, >=50 D, else F give its overallScore, and seven rules that each
\* return their weight and no violations give overallScore 100 and grade S
C11_GradeFromOverallScore ==
    scoreCard.returned =>
        /\ scoreCard.grade = GradeOf(scoreCard.overallScore)
        /\ AllRulesPerfect => scoreCard.overallScore = 100 /\ scoreCard.grade = "S"

\* the ScoreCard of seven rules that each returned their weight and no violations
C11_Witness ==
    /\ scoreCard.returned
    /\ Len(ruleResults) = Len(getRules)
    /\ AllRulesPerfect
    /\ scoreCard.grade = "S"

\* the number of violations of a result that are not info violations
ReportedCount(result) ==
    CountSeverity(result.violations, "error") + CountSeverity(result.violations, "warning")

\* where the violations of the i-th rule start in the flattened list without infos
ReportedOffset(results, i) ==
    SumSeq([j \in 1..(i - 1) |-> ReportedCount(results[j].result)])

\* the k-th violation of a list that is not an info violation
NthReported(violations, k) ==
    LET at == CHOOSE n \in 1..Len(violations) :
                  /\ violations[n].severity # "info"
                  /\ Cardinality({m \in 1..n : violations[m].severity # "info"}) = k
    IN  violations[at]

\* C12: the violations of a returned ScoreCard are exactly the violations of the rule
\* results that are not info violations, in rule order and, within a rule, in the order
\* the rule listed them; every categoryScores entry's ruleResult is what the rule
\* returned, with every violation at every severity
C12_TopLevelViolationsWithoutInfo ==
    scoreCard.returned =>
        /\ Len(scoreCard.violations) = ReportedOffset(ruleResults, Len(ruleResults) + 1)
        /\ \A i \in 1..Len(ruleResults) :
              \A k \in 1..ReportedCount(ruleResults[i].result) :
                  scoreCard.violations[ReportedOffset(ruleResults, i) + k]
                      = NthReported(ruleResults[i].result.violations, k)
        /\ Len(scoreCard.categoryScores) = Len(ruleResults)
        /\ \A i \in 1..Len(ruleResults) :
              /\ scoreCard.categoryScores[i].name = getRules[i]
              /\ scoreCard.categoryScores[i].ruleResult.rule = getRules[i]
              /\ scoreCard.categoryScores[i].ruleResult.result = ruleResults[i].result
              /\ pc = "done" =>
                    scoreCard.categoryScores[i].ruleResult.result.violations
                        = RuleEvaluate(getRules[i], spec).violations

\* a returned ScoreCard of rules that found info violations and others, of which two
\* rules found violations that are not infos
C12_Witness ==
    /\ scoreCard.returned
    /\ pc = "done"
    /\ \E i \in 1..Len(scoreCard.categoryScores) :
          /\ HasSeverity(scoreCard.categoryScores[i].ruleResult.result.violations, "info")
          /\ HasSeverity(scoreCard.categoryScores[i].ruleResult.result.violations, "warning")
    /\ \E i, j \in 1..Len(ruleResults) :
          /\ i < j
          /\ HasSeverity(ruleResults[i].result.violations, "error")
          /\ HasSeverity(ruleResults[j].result.violations, "warning")
    /\ Len(scoreCard.violations) < Len(Flatten([i \in 1..Len(ruleResults) |-> ruleResults[i].result.violations]))

\* round(weight * (1 - p)) with p = (1.0 * errors + 0.2 * warnings + 0.0 * infos) / items,
\* in exact arithmetic
ExactRoundedScore(violations, items, weight) ==
    Round(weight * (10 * items - (10 * CountSeverity(violations, "error")
                                  + 2 * CountSeverity(violations, "warning")
                                  + 0 * CountSeverity(violations, "info"))),
          10 * items)

\* the score the stated formula gives: rounded, capped at weight - 2 when there is an
\* error, and not below 0
StatedScore(violations, totalItems, weight) ==
    Max(0, IF HasSeverity(violations, "error")
           THEN Min(weight - 2, ExactRoundedScore(violations, Max(1, totalItems), weight))
           ELSE ExactRoundedScore(violations, Max(1, totalItems), weight))

\* C13: calculateScore returns round(weight * (1 - p)), not below 0, with
\* p = (1.0 * errors + 0.2 * warnings + 0.0 * infos) / max(1, totalItems), and at most
\* weight - 2 when there is an error
C13_ScoreIsStatedFormula ==
    (call.fn = "calculateScore" /\ outcome.returned) =>
        outcome.value = StatedScore(call.violations, call.totalItems, call.weight)

\* the parts of C13 that hold of the code: the result is within one point of the stated
\* formula, the cap with an error is kept, info violations do not change the result,
\* and totalItems = 0 is scored as one item
C13_HoldsUpToRounding ==
    (call.fn = "calculateScore" /\ outcome.returned) =>
        /\ outcome.value \in {StatedScore(call.violations, call.totalItems, call.weight) - 1,
                              StatedScore(call.violations, call.totalItems, call.weight)}
        /\ outcome.value >= 0
        /\ HasSeverity(call.violations, "error") => outcome.value <= call.weight - 2
        /\ outcome.value
             = calculateScore(SelectSeq(call.violations, LAMBDA v : v.severity # "info"),
                              call.totalItems, call.weight)
        /\ call.totalItems = 0 =>
             outcome.value = calculateScore(call.violations, 1, call.weight)

\* no node: what a resolver returns for a pointer that leads nowhere
IsAbsent(n) == n.t \in {"undefined", "null"}

RECURSIVE TargetOf(_, _)
\* the node a sequence of segments leads to from a node: every segment names a member
\* of an object or an element of an array; Undefined if one does not
TargetOf(segments, node) ==
    IF Len(segments) = 0 THEN node
    ELSE IF ~HasKey(node, Head(segments)) THEN Undefined
    ELSE TargetOf(Tail(segments), Get(node, Head(segments)))

\* the segments of a pointer that starts with #/, as written
RawSegments(ref) == Split(Substring(ref, 2), "/")

\* a pointer without escapes
IsPlain(ref) == ~Includes(ref, "~")

\* a resolver has returned from a call with a pointer without escapes
ResolvedPlain == call.fn \in Resolvers /\ outcome.returned /\ IsPlain(call.ref)

\* C14: a resolver returns the target node when every segment of the pointer is
\* present, and an absence signal when the pointer does not start with #/, a segment
\* is missing, or an intermediate node is not an object or array
C14_TargetOrAbsence ==
    ResolvedPlain =>
        IF StartsWith(call.ref, "#/") /\ TargetOf(RawSegments(call.ref), call.root) # Undefined
        THEN outcome.value = TargetOf(RawSegments(call.ref), call.root)
        ELSE IsAbsent(outcome.value)

\* what holds of every resolver: a pointer that does not start with #/ gives absence,
\* and a target that is an object or array is returned when every segment is present
C14_ObjectTargetsResolved ==
    ResolvedPlain =>
        /\ ~StartsWith(call.ref, "#/") => IsAbsent(outcome.value)
        /\ (StartsWith(call.ref, "#/") /\ IsObject(TargetOf(RawSegments(call.ref), call.root)))
              => outcome.value = TargetOf(RawSegments(call.ref), call.root)

\* the segments of a pointer that starts with #/, ~1 and ~0 unescaped as RFC 6901 says
UnescapedSegments(ref) ==
    [i \in 1..Len(RawSegments(ref)) |->
        ReplaceAll(ReplaceAll(RawSegments(ref)[i], "~1", "/"), "~0", "~")]

\* C15: a resolver unescapes ~1 to / and ~0 to ~ in every segment before the lookup: a
\* pointer whose unescaped segments name an object is resolved to it
C15_SegmentsUnescaped ==
    (call.fn \in Resolvers /\ outcome.returned /\ StartsWith(call.ref, "#/")
        /\ IsObject(TargetOf(UnescapedSegments(call.ref), call.root)))
    => outcome.value = TargetOf(UnescapedSegments(call.ref), call.root)

\* the private resolvers of the older rules do unescape
C15_RuleCopiesUnescape ==
    (call.fn \in Resolvers \ {"resolveReference"} /\ outcome.returned
        /\ StartsWith(call.ref, "#/")
        /\ IsObject(TargetOf(UnescapedSegments(call.ref), call.root)))
    => outcome.value = TargetOf(UnescapedSegments(call.ref), call.root)

\* an object with one member set: replaced where it is, appended if it is new
With(node, key, value) ==
    IF HasKey(node, key)
    THEN [node EXCEPT !.kids = [i \in 1..Len(node.kids) |->
                                   IF node.kids[i].k = key THEN KV(key, value)
                                   ELSE node.kids[i]]]
    ELSE [node EXCEPT !.kids = Append(node.kids, KV(key, value))]

\* the document with one member of one operation set, everything else as it is
WithOperationMember(root, o, key, value) ==
    With(root, "paths",
         With(Get(root, "paths"), o.path,
              With(Get(Get(root, "paths"), o.path), o.method, With(o.op, key, value))))

\* the operations of a document that have neither a meaningful description nor a
\* meaningful summary
UndescribedOperations(root) ==
    {o \in Range(VisitedOperations(root)) :
        /\ IsObject(o.op)
        /\ ~Docs_hasValidDescription(Get(o.op, "description"))
        /\ ~Docs_hasValidDescription(Get(o.op, "summary"))}

\* the Description & Documentation rule is the rule that returned last
DocsJustReturned ==
    /\ Len(evaluated) > 0
    /\ evaluated[Len(evaluated)] = "Description & Documentation"
    /\ Evaluated("Description & Documentation")

\* C16: adding a meaningful description, or a meaningful summary, to an operation that
\* had neither, with everything else as it was, never lowers the score of the
\* Description & Documentation rule
C16_DescribingNeverLowersScore ==
    DocsJustReturned =>
        \A o \in UndescribedOperations(spec) : \A key \in {"description", "summary"} :
            /\ ~Docs_evaluate(WithOperationMember(spec, o, key, Str("Does what it says"))).threw
            /\ Docs_evaluate(WithOperationMember(spec, o, key, Str("Does what it says"))).score
                 >= ResultOf("Description & Documentation").score

\* the rule has scored a document with an undescribed operation, and describing the
\* operation raises the score
C16_Witness ==
    /\ DocsJustReturned
    /\ \E o \in UndescribedOperations(spec) :
          Docs_evaluate(WithOperationMember(spec, o, "description", Str("Does what it says"))).score
             > ResultOf("Description & Documentation").score

\* the component schema User of the document of a call
UserOf(root) == Get(Get(Get(root, "components"), "schemas"), "User")

\* an object schema with properties, each of a valid type, and no required property
ObjectWithoutRequired(schema) ==
    /\ Text(Get(schema, "type")) = "object"
    /\ IsObject(Get(schema, "properties")) /\ Size(Get(schema, "properties")) > 0
    /\ \A i \in 1..Size(Get(schema, "properties")) :
          Text(Get(Get(schema, "properties").kids[i].n, "type")) \in Schema_PRIMITIVE_TYPES
    /\ (~HasKey(schema, "required") \/ Size(Get(schema, "required")) = 0)

\* the schema and each of its properties carry a description and an example
Documented(schema) ==
    /\ HasKey(schema, "description") /\ HasKey(schema, "example")
    /\ \A i \in 1..Size(Get(schema, "properties")) :
          /\ HasKey(Get(schema, "properties").kids[i].n, "description")
          /\ HasKey(Get(schema, "properties").kids[i].n, "example")

\* SchemaTypesRule.evaluate has returned a result for the document of the call
SchemaReturned ==
    call.fn = "SchemaTypesRule.evaluate" /\ outcome.returned /\ ~outcome.value.threw

\* exactly one violation, an info about properties of which none is required, and the
\* full score
OnlyRequiredInfo(result) ==
    /\ Len(result.violations) = 1
    /\ result.violations[1].severity = "info"
    /\ Includes(result.violations[1].message, "none are marked as required")
    /\ result.score = WeightSchemaTypes

\* C17 as stated: an object schema with properties of valid types and no required
\* property, without another structural defect, yields exactly one violation, an info
\* containing "none are marked as required", and the score is the weight
C17_OnlyRequiredInfo ==
    (SchemaReturned /\ ObjectWithoutRequired(UserOf(call.root)))
        => OnlyRequiredInfo(outcome.value)

\* C17: an object schema with properties of valid types and no required property, in
\* which the schema and every property carry a description and an example, yields
\* exactly one violation, an info containing "none are marked as required", and the
\* score is the weight; whatever is documented, exactly one of its violations is that
\* info, and the only other violations are the infos and warnings about missing
\* descriptions and examples
C17_OnlyRequiredInfoWhenDocumented ==
    (SchemaReturned /\ ObjectWithoutRequired(UserOf(call.root))) =>
        /\ Documented(UserOf(call.root)) => OnlyRequiredInfo(outcome.value)
        /\ Cardinality({i \in 1..Len(outcome.value.violations) :
               Includes(outcome.value.violations[i].message, "none are marked as required")
               /\ outcome.value.violations[i].severity = "info"}) = 1
        /\ \A i \in 1..Len(outcome.value.violations) :
              \/ Includes(outcome.value.violations[i].message, "none are marked as required")
              \/ Includes(outcome.value.violations[i].message, "is missing a description")
              \/ Includes(outcome.value.violations[i].message, "is missing examples")
        /\ ~HasSeverity(outcome.value.violations, "warning")
              => outcome.value.score = WeightSchemaTypes

\* the rule has returned for a documented object schema without required properties
C17_Witness ==
    /\ SchemaReturned
    /\ ObjectWithoutRequired(UserOf(call.root))
    /\ Documented(UserOf(call.root))
    /\ Size(Get(UserOf(call.root), "properties")) = 2
    /\ Len(outcome.value.violations) = 1

\* SecurityRule.evaluate has returned a result for the document of the call
SecurityReturned ==
    call.fn = "SecurityRule.evaluate" /\ outcome.returned /\ ~outcome.value.threw

\* the document has an operation under post, put, patch or delete
HasMutatingOperation(root) ==
    \E o \in Range(VisitedOperations(root)) : o.method \in Security_MUTATING_METHODS

\* components.securitySchemes is absent
NoSecuritySchemes(root) == ~HasKey(Get(root, "components"), "securitySchemes")

\* neither the document nor any of its operations has a member `security`
NoSecurityAnywhere(root) ==
    /\ ~HasKey(root, "security")
    /\ \A o \in Range(VisitedOperations(root)) : ~HasKey(o.op, "security")

\* C18: a specification with at least one mutating operation, no
\* components.securitySchemes and no security anywhere yields exactly one violation, an
\* error whose message contains "no security schemes are defined", and a score
\* strictly less than the weight
C18_MissingSchemesIsOneError ==
    (/\ SecurityReturned
     /\ HasMutatingOperation(call.root)
     /\ NoSecuritySchemes(call.root)
     /\ NoSecurityAnywhere(call.root))
    => /\ Len(outcome.value.violations) = 1
       /\ outcome.value.violations[1].severity = "error"
       /\ Includes(outcome.value.violations[1].message, "no security schemes are defined")
       /\ outcome.value.score < WeightSecurity
       /\ outcome.value.maxScore = WeightSecurity

\* the rule has returned for a document with a get and a post operation, no schemes and
\* no security
C18_Witness ==
    /\ SecurityReturned
    /\ HasMutatingOperation(call.root)
    /\ Len(VisitedOperations(call.root)) = 2
    /\ NoSecuritySchemes(call.root)
    /\ NoSecurityAnywhere(call.root)
    /\ outcome.value.score = 5

\* no scheme is defined: components.securitySchemes is absent or empty
NoDefinedSchemes(root) == Len(Security_getDefinedSchemes(root)) = 0

\* no security requirement of the document or of an operation names a scheme
NoReferencedSchemes(root) == Len(Security_allReferencedSchemes(root)) = 0

\* C19 as stated: every specification with no mutating operation and no defined
\* security scheme scores the full weight
C19_ReadOnlyUndefendedFullWeight ==
    (/\ SecurityReturned
     /\ ~HasMutatingOperation(call.root)
     /\ NoDefinedSchemes(call.root))
    => outcome.value.score = WeightSecurity

\* C19: every specification with no mutating operation, no defined security scheme and
\* no security requirement that names a scheme scores the full weight, with no
\* violation; with such a requirement the score is the weight less half the weight for
\* each scheme named, and not below zero
C19_ReadOnlyUnreferencedFullWeight ==
    (/\ SecurityReturned
     /\ ~HasMutatingOperation(call.root)
     /\ NoDefinedSchemes(call.root))
    => /\ NoReferencedSchemes(call.root)
          => outcome.value.score = WeightSecurity /\ outcome.value.violations = <<>>
       /\ outcome.value.score =
            Max(0, WeightSecurity
                     - Len(Security_allReferencedSchemes(call.root)) * (WeightSecurity \div 2))
       /\ outcome.value.maxScore = WeightSecurity

\* the rule has returned the full weight for a document with a get operation only
C19_Witness ==
    /\ SecurityReturned
    /\ ~HasMutatingOperation(call.root)
    /\ NoDefinedSchemes(call.root)
    /\ NoReferencedSchemes(call.root)
    /\ Len(VisitedOperations(call.root)) = 1
    /\ outcome.value.score = WeightSecurity

\* the operations of a document that have no member `responses`
OperationsWithoutResponses(root) ==
    {o \in Range(VisitedOperations(root)) : IsObject(o.op) /\ ~HasKey(o.op, "responses")}

\* the violations of a result that are about one operation: those of its path whose
\* location is the operation's or lies under it
ViolationsAbout(result, o) ==
    SelectSeq(result.violations,
              LAMBDA v : v.path = o.path /\ StartsWith(v.location, o.path \o "." \o o.method))

\* C20: for every operation whose `responses` is missing entirely the Response Codes
\* rule emits exactly one violation for that operation, the error '<METHOD> operation
\* is missing response definitions', and no violation of any other response check
C20_MissingResponsesIsOneError ==
    Evaluated("Response Codes") =>
        \A o \in OperationsWithoutResponses(spec) :
            /\ Len(ViolationsAbout(ResultOf("Response Codes"), o)) = 1
            /\ ViolationsAbout(ResultOf("Response Codes"), o)[1].severity = "error"
            /\ ViolationsAbout(ResultOf("Response Codes"), o)[1].message
                 = ToUpperCase(o.method) \o " operation is missing response definitions"
            /\ ViolationsAbout(ResultOf("Response Codes"), o)[1].location
                 = o.path \o "." \o o.method

\* the rule has returned for a document with an operation without responses next to an
\* operation with responses
C20_Witness ==
    /\ Evaluated("Response Codes")
    /\ OperationsWithoutResponses(spec) # {}
    /\ \E o \in Range(VisitedOperations(spec)) : HasKey(o.op, "responses")
    /\ \E i \in 1..Len(ResultOf("Response Codes").violations) :
          ResultOf("Response Codes").violations[i].message
              = "GET operation is missing response definitions"

\* PathsOperationsRule.evaluate has returned a result for the document of the call
PathsReturned ==
    call.fn = "PathsOperationsRule.evaluate" /\ outcome.returned /\ ~outcome.value.threw

\* the path item of the document defines the method
DefinesMethod(root, path, method) ==
    \E o \in Range(VisitedOperations(root)) : o.path = path /\ o.method = method

\* a segment that is a path parameter, {name}
ParameterSegment(segment) == StartsWith(segment, "{") /\ EndsWith(segment, "}")

\* the path with every path-parameter segment replaced by a wildcard token
WildcardNormalized(path) ==
    [k \in 1..Len(Split(path, "/")) |->
        IF ParameterSegment(Split(path, "/")[k]) THEN "*" ELSE Split(path, "/")[k]]

\* the two paths have as many non-empty segments, and at every position the segments
\* are the same or one of them is a parameter
SegmentsMatch(path1, path2) ==
    /\ Len(Segments(path1)) = Len(Segments(path2))
    /\ \A k \in 1..Len(Segments(path1)) :
          \/ Segments(path1)[k] = Segments(path2)[k]
          \/ StartsWith(Segments(path1)[k], "{")
          \/ StartsWith(Segments(path2)[k], "{")

\* the number of conflict warnings of a result for a method and a pair of paths
ConflictWarnings(result, method, path1, path2) ==
    Cardinality({i \in 1..Len(result.violations) :
        /\ result.violations[i].severity = "warning"
        /\ result.violations[i].message =
             "Potential path conflict for " \o ToUpperCase(method) \o " method between \""
                 \o path1 \o "\" and \"" \o path2 \o "\""})

\* the pairs of paths of a document, the earlier key first
PathPairs(root) ==
    {pair \in (1..Len(Paths_paths(root))) \X (1..Len(Paths_paths(root))) : pair[1] < pair[2]}

\* C21 as stated: for every method and every two distinct paths, a warning 'Potential
\* path conflict for <METHOD> method' is produced if both paths define the method and
\* are equal after every path-parameter segment is replaced by a wildcard token, and
\* none is produced otherwise
C21_ConflictIffEqualNormalized ==
    PathsReturned =>
        \A pair \in PathPairs(call.root) : \A method \in Range(Paths_HTTP_METHODS) :
            (ConflictWarnings(outcome.value, method, Paths_paths(call.root)[pair[1]],
                              Paths_paths(call.root)[pair[2]]) > 0)
            <=> (/\ DefinesMethod(call.root, Paths_paths(call.root)[pair[1]], method)
                 /\ DefinesMethod(call.root, Paths_paths(call.root)[pair[2]], method)
                 /\ WildcardNormalized(Paths_paths(call.root)[pair[1]])
                      = WildcardNormalized(Paths_paths(call.root)[pair[2]]))

\* C21: for every method and every two distinct paths, exactly one warning 'Potential
\* path conflict for <METHOD> method between "<path1>" and "<path2>"' is produced if
\* both paths define the method, have as many non-empty segments, and at every position
\* their segments are the same or one of them is a parameter segment; none is produced
\* otherwise
C21_ConflictIffSegmentsMatch ==
    PathsReturned =>
        \A pair \in PathPairs(call.root) : \A method \in Range(Paths_HTTP_METHODS) :
            /\ ConflictWarnings(outcome.value, method, Paths_paths(call.root)[pair[1]],
                                Paths_paths(call.root)[pair[2]])
                 = IF /\ DefinesMethod(call.root, Paths_paths(call.root)[pair[1]], method)
                      /\ DefinesMethod(call.root, Paths_paths(call.root)[pair[2]], method)
                      /\ SegmentsMatch(Paths_paths(call.root)[pair[1]],
                                       Paths_paths(call.root)[pair[2]])
                   THEN 1 ELSE 0
            /\ ConflictWarnings(outcome.value, method, Paths_paths(call.root)[pair[2]],
                                Paths_paths(call.root)[pair[1]]) = 0

\* the rule has returned for a document in which /users/{userId} and /users/{username}
\* both have a get operation, with the warning, next to a path that shares no method
C21_Witness ==
    /\ PathsReturned
    /\ DefinesMethod(call.root, "/users/{userId}", "get")
    /\ DefinesMethod(call.root, "/users/{username}", "get")
    /\ DefinesMethod(call.root, "/orders/{orderId}", "delete")
    /\ ConflictWarnings(outcome.value, "get", "/users/{userId}", "/users/{username}") = 1

\* the names of the `in: path` parameters of a parameter list, references resolved
DeclaredPathParameters(parameters, root) ==
    {Text(Get(resolveNode(parameters.kids[i].n, root), "name")) :
        i \in {j \in 1..Size(parameters) :
                  Text(Get(resolveNode(parameters.kids[j].n, root), "in")) = "path"}}

\* the {name} tokens of the operation's path that are declared neither on the
\* operation nor on its path item
UndeclaredTokens(o, root) ==
    {name \in Range(Paths_pathParamNames(o.path)) :
        name \notin DeclaredPathParameters(Get(o.op, "parameters"), root)
                    \cup DeclaredPathParameters(
                             Get(Paths_pathItem(root, o.path), "parameters"), root)}

\* the error violations of a result that report a path parameter of the operation's
\* path as not defined, at the operation or at its path item
MissingParameterErrors(result, o) ==
    {i \in 1..Len(result.violations) :
        /\ result.violations[i].severity = "error"
        /\ result.violations[i].path = o.path
        /\ Includes(result.violations[i].message, "Path parameter ")
        /\ Includes(result.violations[i].message, " is not defined in ")
        /\ result.violations[i].location
             \in {"paths[\"" \o o.path \o "\"]." \o o.method, "paths[\"" \o o.path \o "\"]"}}

\* the operations of a document whose path has {name} tokens
OperationsOfParameterPaths(root) ==
    {o \in Range(VisitedOperations(root)) : Len(Paths_pathParamNames(o.path)) > 0}

\* C22 as stated: for every path with {name} tokens and every operation under it, an
\* error-severity missing-path-parameter violation is reported for the operation if and
\* only if some token is declared as an `in: path` parameter neither on the operation
\* nor on the path item; an operation whose path parameters are all declared on the
\* path item gets no such error
C22_MissingParameterIffUndeclared ==
    PathsReturned =>
        \A o \in OperationsOfParameterPaths(call.root) :
            (MissingParameterErrors(outcome.value, o) # {})
                <=> (UndeclaredTokens(o, call.root) # {})

\* the check of checkPathParameterConsistency taken alone: 'Path parameter {<name>} is
\* not defined in <METHOD> operation' is reported at the operation exactly for the
\* tokens that no inline parameter of the operation or of the path item declares
C22_PerOperationCheckOfInlineParameters ==
    PathsReturned =>
        \A o \in OperationsOfParameterPaths(call.root) :
            \A name \in Range(Paths_pathParamNames(o.path)) :
                (\E i \in 1..Len(outcome.value.violations) :
                    /\ outcome.value.violations[i].severity = "error"
                    /\ outcome.value.violations[i].location
                         = "paths[\"" \o o.path \o "\"]." \o o.method
                    /\ outcome.value.violations[i].message
                         = "Path parameter {" \o name \o "} is not defined in "
                              \o ToUpperCase(o.method) \o " operation")
                <=> (name \notin Paths_pathParamsOf(Get(o.op, "parameters"))
                                 \cup Paths_pathParamsOf(
                                          Get(Paths_pathItem(call.root, o.path), "parameters")))

\* the rule has returned for a document whose only operation has its path parameter
\* declared on the path item, and an error about that parameter is among the violations
C22_DeclaredOnPathItemReported ==
    /\ PathsReturned
    /\ Len(VisitedOperations(call.root)) = 1
    /\ \E o \in OperationsOfParameterPaths(call.root) :
          /\ HasKey(Paths_pathItem(call.root, o.path), "parameters")
          /\ UndeclaredTokens(o, call.root) = {}
          /\ MissingParameterErrors(outcome.value, o) # {}

\* ExamplesSamplesRule.evaluate has returned a result for the document of the call
ExamplesReturned ==
    call.fn = "ExamplesSamplesRule.evaluate" /\ outcome.returned /\ ~outcome.value.threw

\* an `example`, or an `examples` map that is not empty
WithExample(node) == HasKey(node, "example") \/ Size(Get(node, "examples")) > 0

\* the items of a document that require an example, each once: the media types of the
\* request bodies of post, put and patch operations, the media types of the 2xx
\* responses, and the parameters of the operations
ItemsRequiringExamples(root) ==
    UNION { { [at |-> <<o.path, o.method, "requestBody", m.k>>, node |-> m.n] :
                m \in IF o.method \in {"post", "put", "patch"}
                      THEN Range(Entries(Get(Get(o.op, "requestBody"), "content")))
                      ELSE {} }
            \cup
            UNION { { [at |-> <<o.path, o.method, "responses", r.k, m.k>>, node |-> m.n] :
                        m \in Range(Entries(Get(r.n, "content"))) } :
                    r \in {e \in Range(Entries(Get(o.op, "responses"))) : StartsWith(e.k, "2")} }
            \cup
            { [at |-> <<o.path, o.method, "parameters", p.k>>, node |-> p.n] :
                p \in Range(Entries(Get(o.op, "parameters"))) } :
            o \in Range(VisitedOperations(root)) }

ItemsWithExamples(root) == {item \in ItemsRequiringExamples(root) : WithExample(item.node)}

\* C23: the score of the Examples & Samples rule is
\* round((itemsWithExamples / itemsChecked) * weight), where itemsChecked counts once
\* each request-body media type of post, put and patch operations, each 2xx response
\* media type and each parameter; it is the full weight when no item requires an
\* example and 0 when none of the checked items has one; each item without an example
\* is one violation
C23_ScoreIsShareOfItemsWithExamples ==
    ExamplesReturned =>
        /\ outcome.value.score =
             IF Cardinality(ItemsRequiringExamples(call.root)) = 0 THEN WeightExamples
             ELSE Round(Cardinality(ItemsWithExamples(call.root)) * WeightExamples,
                        Cardinality(ItemsRequiringExamples(call.root)))
        /\ (Cardinality(ItemsRequiringExamples(call.root)) > 0
            /\ Cardinality(ItemsWithExamples(call.root)) = 0) => outcome.value.score = 0
        /\ Len(outcome.value.violations)
             = Cardinality(ItemsRequiringExamples(call.root))
                 - Cardinality(ItemsWithExamples(call.root))
        /\ outcome.value.maxScore = WeightExamples

\* the rule has returned 0 for a post operation with one request-body media type and
\* one 201 response media type, both without an example, and nothing else to check
C23_Witness ==
    /\ ExamplesReturned
    /\ \E o \in Range(VisitedOperations(call.root)) : o.method = "post"
    /\ Cardinality(ItemsRequiringExamples(call.root)) = 2
    /\ Cardinality(ItemsWithExamples(call.root)) = 0
    /\ outcome.value.score = 0
    /\ Len(outcome.value.violations) = 2

\* totalSchemas of the document of the call, at least 1
TotalSchemas(root) == Max(1, Len(Schema_allSchemas(root)))

\* the schema locations marked in schemasWithViolations for the document
LocationsWithViolations(root) == Schema_validated(root).w

\* the errors and warnings of a result at one location
CountedAt(result, location) ==
    Cardinality({i \in 1..Len(result.violations) :
        /\ result.violations[i].location = location
        /\ result.violations[i].severity \in {"error", "warning"}})

\* weight - 2 when the result has an error, the weight otherwise
ErrorCap(result, weight) ==
    IF HasSeverity(result.violations, "error") THEN weight - 2 ELSE weight

\* C24 as stated: a schema location takes at most one unit of penalty, the weight
\* divided by the number of schemas, off the score, however many checks it fails
C24_AtMostOneUnitPerLocation ==
    SchemaReturned =>
        outcome.value.score >=
            Min(ErrorCap(outcome.value, WeightSchemaTypes),
                Round(WeightSchemaTypes
                        * (TotalSchemas(call.root)
                             - Cardinality(LocationsWithViolations(call.root))),
                      TotalSchemas(call.root)))

\* C24: the violation-location ratio counts a schema location once however many checks
\* it fails, and the score averages that ratio with the severity-weighted ratio, which
\* counts every error as 1 and every warning as 0.2:
\* score = max(0, round(weight * (1 - (locations + errors + 0.2 * warnings)
\*                                     / (2 * totalSchemas)))), at most weight - 2
\* when there is an error
C24_LocationsOnceViolationsEach ==
    SchemaReturned =>
        outcome.value.score =
            Max(0, Min(ErrorCap(outcome.value, WeightSchemaTypes),
                       Round(10 * WeightSchemaTypes * TotalSchemas(call.root)
                               - 5 * WeightSchemaTypes
                                   * Cardinality(LocationsWithViolations(call.root))
                               - 5 * WeightSchemaTypes
                                   * CountSeverity(outcome.value.violations, "error")
                               - WeightSchemaTypes
                                   * CountSeverity(outcome.value.violations, "warning"),
                             10 * TotalSchemas(call.root))))

\* the rule has returned for two schemas of which one is well-formed and the other
\* fails two error checks at its one location: a quarter of the weight is left
C24_Witness ==
    /\ SchemaReturned
    /\ Len(Schema_allSchemas(call.root)) = 2
    /\ LocationsWithViolations(call.root) = {"components.schemas.Tags"}
    /\ CountedAt(outcome.value, "components.schemas.Tags") = 2
    /\ Len(outcome.value.violations) = 2
    /\ outcome.value.score = 5

\* the operations of a document for which a result has an error or a warning
OperationsWithIssues(result, root) ==
    {o \in Range(VisitedOperations(root)) :
        \E i \in 1..Len(ViolationsAbout(result, o)) :
            ViolationsAbout(result, o)[i].severity # "info"}

\* round(operationsWithoutIssues / totalOperations * weight)
ShareOfCleanOperations(result, root) ==
    Round((Len(VisitedOperations(root)) - Cardinality(OperationsWithIssues(result, root)))
              * WeightResponseCodes,
          Max(1, Len(VisitedOperations(root))))

\* C25: the score of the Response Codes rule is the proportion of operations with zero
\* issues scaled to the weight; with an error-severity violation it is at most 80% of
\* the weight and at most that proportion, less a penalty proportional to the errors
\* per operation
C25_ScoreIsShareOfCleanOperations ==
    (Evaluated("Response Codes") /\ Size(Get(spec, "paths")) > 0) =>
        IF HasSeverity(ResultOf("Response Codes").violations, "error")
        THEN /\ ResultOf("Response Codes").score <= Round(8 * WeightResponseCodes, 10)
             /\ ResultOf("Response Codes").score
                  = Max(0, Min(ShareOfCleanOperations(ResultOf("Response Codes"), spec),
                               Round(8 * WeightResponseCodes, 10))
                           - Round(CountSeverity(ResultOf("Response Codes").violations, "error")
                                       * WeightResponseCodes,
                                   2 * Max(1, Len(VisitedOperations(spec)))))
        ELSE ResultOf("Response Codes").score
                 = ShareOfCleanOperations(ResultOf("Response Codes"), spec)

\* the rule has returned more than the share of clean operations for a document
\* without errors in which an operation has a warning
C25_WarningsWeighted ==
    /\ Evaluated("Response Codes")
    /\ Size(Get(spec, "paths")) > 0
    /\ ~HasSeverity(ResultOf("Response Codes").violations, "error")
    /\ Cardinality(OperationsWithIssues(ResultOf("Response Codes"), spec)) > 0
    /\ ResultOf("Response Codes").score
         > ShareOfCleanOperations(ResultOf("Response Codes"), spec)

\* the potential security points as stated: each mutating operation and each distinct
\* scheme reference
StatedPotentialPoints(root) ==
    Len(Security_mutatingOperations(root)) + Len(Security_allReferencedSchemes(root))

\* the secured points as stated: each secured mutating operation and each referenced
\* scheme that is defined
StatedSecuredPoints(root) ==
    Security_securedPoints(root)
      + Cardinality(Range(Security_allReferencedSchemes(root))
                      \cap Range(Security_getDefinedSchemes(root)))

\* round(securedPoints / potentialSecurityPoints * weight) with the stated points
StatedSecurityScore(root) ==
    Round(StatedSecuredPoints(root) * WeightSecurity, StatedPotentialPoints(root))

\* C26: when no error is present the score of the Security rule is
\* round((securedPoints / potentialSecurityPoints) * weight), where
\* potentialSecurityPoints counts each mutating operation plus each distinct scheme
\* reference and a referenced scheme that is defined counts as secured; a tenth of the
\* weight may go off for each warning
C26_ScoreCountsReferences ==
    (/\ SecurityReturned
     /\ ~HasSeverity(outcome.value.violations, "error")
     /\ StatedPotentialPoints(call.root) > 0)
    => outcome.value.score
         \in { StatedSecurityScore(call.root),
               Max(0, StatedSecurityScore(call.root)
                        - CountSeverity(outcome.value.violations, "warning")
                            * (WeightSecurity \div 10)) }

\* the rule has returned 0 for a document without errors whose one mutating operation
\* disables the global security, which names a defined scheme
C26_ReferencesNotCounted ==
    /\ SecurityReturned
    /\ ~HasSeverity(outcome.value.violations, "error")
    /\ Len(Security_mutatingOperations(call.root)) = 1
    /\ Len(VisitedOperations(call.root)) = 1
    /\ StatedPotentialPoints(call.root) = 2
    /\ StatedSecuredPoints(call.root) = 1
    /\ outcome.value.score = 0

\* Object.keys(spec.paths || {}).length === 0
NoPathsAtAll(root) == ~Truthy(Get(root, "paths")) \/ Size(Get(root, "paths")) = 0

\* the points the seven sub-checks of the Miscellaneous rule award to the document
AchievedPoints(root) ==
    Misc_checkVersioning(root).score + Misc_checkServers(root).score
    + Misc_checkTags(root).score + Misc_checkComponentsReuse(root).score
    + Misc_checkInfoCompleteness(root).score + Misc_checkOperationIds(root).score
    + Misc_checkExternalDocs(root).score

\* C27: the score of the Miscellaneous rule is round((sum of achieved sub-check points /
\* sum of sub-check maxima) * weight), or the full weight if the document has no paths
\* at all
C27_ShareOfPointsOrFullWeightWithoutPaths ==
    Evaluated("Miscellaneous") =>
        ResultOf("Miscellaneous").score
            = IF NoPathsAtAll(spec) THEN WeightMiscellaneous
              ELSE Round(AchievedPoints(spec) * WeightMiscellaneous, Misc_maxInternalScore)

\* what the rule computes: the share of the achieved points, with paths or without
C27_ShareOfPointsAlways ==
    Evaluated("Miscellaneous") =>
        ResultOf("Miscellaneous").score
            = Round(AchievedPoints(spec) * WeightMiscellaneous, Misc_maxInternalScore)

\* the rule has returned less than its weight for a document with no paths at all
C27_NoPathsBelowWeight ==
    /\ Evaluated("Miscellaneous")
    /\ NoPathsAtAll(spec)
    /\ ResultOf("Miscellaneous").score < WeightMiscellaneous

\* MiscellaneousBestPracticesRule.evaluate has returned a result for the document of
\* the call
MiscReturned ==
    call.fn = "MiscellaneousBestPracticesRule.evaluate"
    /\ outcome.returned /\ ~outcome.value.threw

\* the document has a $ref member somewhere
UsesRef(root) == "$ref" \in Tokens(root)

\* the violations of the components-reuse sub-check
ComponentsReuseViolations(result) ==
    SelectSeq(result.violations, LAMBDA v : Includes(v.location, "components"))

\* C28: a document that defines components and uses a $ref earns both points of the
\* components-reuse sub-check and gets no components-reuse violation
C28_DefinedAndReusedEarnsBoth ==
    (MiscReturned /\ Misc_componentsDefined(call.root) /\ UsesRef(call.root)) =>
        /\ Misc_checkComponentsReuse(call.root).score = 2
        /\ ComponentsReuseViolations(outcome.value) = <<>>

\* the sub-check never awards its second point: the searched text has a backslash
\* before $ref, which JSON.stringify never writes there
C28_SecondPointNeverAwarded ==
    MiscReturned =>
        Misc_checkComponentsReuse(call.root).score
            = IF Misc_componentsDefined(call.root) THEN 1 ELSE 0

\* a document with components, a $ref to one of them and five paths is told that no
\* $ref was found
C28_ReusedReportedAsNotReused ==
    /\ MiscReturned
    /\ Misc_componentsDefined(call.root)
    /\ UsesRef(call.root)
    /\ Size(Get(call.root, "paths")) = Misc_MIN_PATHS_FOR_COMPONENT_EXPECTATION
    /\ Len(ComponentsReuseViolations(outcome.value)) = 1
    /\ ComponentsReuseViolations(outcome.value)[1].location = "components / various"

\* SchemaTypesRule.evaluate has ended for the document of the call, with a result or
\* with an exception
SchemaEnded == call.fn = "SchemaTypesRule.evaluate" /\ outcome.returned

NamedSchemas(root) == Range(Entries(Get(Get(root, "components"), "schemas")))

\* the schema a node stands for: the component schema a reference object names, the
\* node itself otherwise
Referred(node, root) ==
    IF HasKey(node, "$ref")
    THEN IF \E e \in NamedSchemas(root) :
               "#/components/schemas/" \o e.k = Get(node, "$ref").v
         THEN (CHOOSE e \in NamedSchemas(root) :
                   "#/components/schemas/" \o e.k = Get(node, "$ref").v).n
         ELSE Undefined
    ELSE node

MembersAt(node, key) ==
    IF IsObject(Get(node, key)) THEN {e.n : e \in Range(Entries(Get(node, key)))} ELSE {}

\* the schemas validateSchema goes on to from a schema: the properties and the
\* additional properties of an object, the items of an array, the members of allOf,
\* oneOf and anyOf
FollowedFrom(node, root) ==
    LET schema == Referred(node, root)
    IN  (IF Get(schema, "type") = Str("object")
         THEN MembersAt(schema, "properties")
              \cup (IF IsObject(Get(schema, "additionalProperties"))
                    THEN {Get(schema, "additionalProperties")} ELSE {})
         ELSE {})
        \cup (IF Get(schema, "type") = Str("array") /\ IsObject(Get(schema, "items"))
              THEN {Get(schema, "items")} ELSE {})
        \cup MembersAt(schema, "allOf") \cup MembersAt(schema, "oneOf")
        \cup MembersAt(schema, "anyOf")

RECURSIVE FollowedFromAll(_, _)
\* every schema the traversal comes to from the given ones
FollowedFromAll(nodes, root) ==
    LET further == nodes \cup UNION {FollowedFrom(n, root) : n \in nodes}
    IN  IF further = nodes THEN nodes ELSE FollowedFromAll(further, root)

\* the traversal comes back to a schema it is inside of
TraversalComesBack(root) ==
    \E n \in FollowedFromAll({Schema_allSchemas(root)[i].schema :
                                 i \in 1..Len(Schema_allSchemas(root))}, root) :
        n \in FollowedFromAll(FollowedFrom(n, root), root)

\* the component schemas a component schema refers to, anywhere inside it
RefersTo(entry, root) ==
    {e \in NamedSchemas(root) : ("#/components/schemas/" \o e.k) \in Tokens(entry.n)}

RECURSIVE RefersToAll(_, _)
RefersToAll(entries, root) ==
    LET further == entries \cup UNION {RefersTo(e, root) : e \in entries}
    IN  IF further = entries THEN entries ELSE RefersToAll(further, root)

\* the references of the component schemas form a cycle
ReferencesFormCycle(root) ==
    \E e \in NamedSchemas(root) : e \in RefersToAll(RefersTo(e, root), root)

C29_CycleNotFollowed ==
    /\ SchemaEnded
    /\ ReferencesFormCycle(call.root)
    /\ ~TraversalComesBack(call.root)
    /\ ~outcome.value.threw
    /\ Len(outcome.value.violations) > 0

\* references without a cycle: the rule returns a result
C29_AcyclicReturns ==
    /\ SchemaEnded
    /\ \E e \in NamedSchemas(call.root) : RefersTo(e, call.root) # {}
    /\ ~ReferencesFormCycle(call.root)
    /\ ~outcome.value.threw

\* C30: a RuleResult with at least one error-severity violation has a score strictly
\* below the weight of its rule, for every rule and every document
C30_ErrorBelowWeight ==
    \A i \in 1..Len(ruleResults) :
        HasSeverity(ruleResults[i].result.violations, "error") =>
            ruleResults[i].result.score < RuleWeight(ruleResults[i].rule)

\* the same for every result but the one ResponseCodesRule.noPathsViolation returns
C30_ErrorBelowWeightWithPaths ==
    \A i \in 1..Len(ruleResults) :
        (/\ HasSeverity(ruleResults[i].result.violations, "error")
         /\ ~(ruleResults[i].rule = "Response Codes" /\ NoPathsAtAll(spec))) =>
            ruleResults[i].result.score < RuleWeight(ruleResults[i].rule)

\* the Response Codes rule has returned its full weight together with the error that
\* no paths are defined
C30_FullWeightWithError ==
    /\ Evaluated("Response Codes")
    /\ NoPathsAtAll(spec)
    /\ HasSeverity(ResultOf("Response Codes").violations, "error")
    /\ ResultOf("Response Codes").score = WeightResponseCodes
=============================================================================
